---- MODULE Spec2Model ----
(***************************************************************************)
(* A model of the web3-career-bot aggregation pipeline: the record model   *)
(* and fetch_all's two-tier merge (boards.py), the seen ledger             *)
(* (storage.py), the filter engine (filters.py), and the passes run by     *)
(* the bot's command threads and scheduler (bot.py, scraper.py).           *)
(*                                                                         *)
(* Text is modelled as a sequence of one-character strings, so that        *)
(* lower(), strip(), html.unescape() and substring tests are computed.     *)
(***************************************************************************)
EXTENDS Integers, Sequences, FiniteSets, TLC

VARIABLES
    \* ---- config.py ----
    env,                 \* JOB_ROLES, LOCATION_TYPE, PREFERRED_LOCATIONS as loaded
    \* ---- fetch_all (boards.py) ----
    fetchPc,             \* "loop" while fetch_all iterates BOARDS, "returned" after
    board,               \* index into BOARDS of the adapter being iterated
    all_jobs,            \* fetch_all's all_jobs
    seen_ids,            \* fetch_all's seen_ids
    seen_title_company,  \* fetch_all's seen_title_company
    emitted,             \* history: every record the adapters produced, in order
    keptIdx,             \* history: positions of emitted that were appended
    \* ---- the seen ledger (storage.py) ----
    db,                  \* seen_jobs.db: whether the table exists, and its rows
    clock,               \* what datetime.utcnow() returns
    op,                  \* history: the storage call made last
    arg,                 \* history: its jobs argument
    ret,                 \* history: what it returned
    pre,                 \* history: db before it
    marked,              \* history: the argument of the latest mark_seen
    again,               \* history: the call repeats the mark_seen just before it
    \* ---- the bot process and the scraper runs (bot.py, scraper.py) ----
    lock,                \* _fetch_lock is held
    pass,                \* the passes requested so far: kind, position, locals
    sent,                \* history: identities of the postings sent to the chat
    delivered,           \* history: how often each identity was sent as new by a
                         \* /new pass or a scheduled scrape
    \* ---- a function of the pipeline called on its own ----
    call,                \* the function called, "none" before the call
    input,               \* what the caller and the outside world hand to it
    output,              \* what it returned
    \* ---- the polling loop and the setup flow (bot.py, prefs.py) ----
    _setup,              \* _setup: user id -> step and roles, absent users left out
    prefs,               \* user_prefs.json, as prefs.save wrote it
    offset,              \* main's offset
    update               \* history: id, chat and kind of the update handled last

fetchVars == <<fetchPc, board, all_jobs, seen_ids, seen_title_company, emitted, keptIdx>>
storageVars == <<op, arg, ret, pre, marked, again>>

botVars == <<lock, pass, sent, delivered>>

callVars == <<call, input, output>>

loopVars == <<_setup, prefs, offset, update>>

vars == <<env, fetchVars, db, clock, storageVars, botVars, callVars, loopVars>>

-----------------------------------------------------------------------------
(* Text helpers *)

UPPER == <<"A","B","C","D","E","F","G","H","I","J","K","L","M",
           "N","O","P","Q","R","S","T","U","V","W","X","Y","Z">>
LOWER == <<"a","b","c","d","e","f","g","h","i","j","k","l","m",
           "n","o","p","q","r","s","t","u","v","w","x","y","z">>

\* str.lower()
lower(s) ==
    [i \in 1..Len(s) |->
        IF \E k \in 1..Len(UPPER) : UPPER[k] = s[i]
        THEN LOWER[CHOOSE k \in 1..Len(UPPER) : UPPER[k] = s[i]]
        ELSE s[i]]

NL == "\n"

IsSpace(c) == c \in {" ", NL, "\t"}

\* the first position from i on, and the last one up to i, that holds no
\* white space
RECURSIVE first_nonspace(_, _)
first_nonspace(s, i) ==
    IF i > Len(s) \/ ~IsSpace(s[i]) THEN i ELSE first_nonspace(s, i + 1)

RECURSIVE last_nonspace(_, _)
last_nonspace(s, i) ==
    IF i < 1 \/ ~IsSpace(s[i]) THEN i ELSE last_nonspace(s, i - 1)

\* str.strip()
strip(s) == SubSeq(s, first_nonspace(s, 1), last_nonspace(s, Len(s)))

\* prefix test: s starts with p
StartsWith(s, p) == Len(p) <= Len(s) /\ SubSeq(s, 1, Len(p)) = p

\* Python's `sub in s`
Contains(sub, s) ==
    \E i \in 0..(Len(s) - Len(sub)) : SubSeq(s, i + 1, i + Len(sub)) = sub

\* The named character references html.unescape() resolves that the modelled
\* texts use (an excerpt of html.entities.html5); each also resolves without
\* its trailing semicolon.
ENTITIES == { [name |-> <<"a","m","p">>, char |-> "&"],
              [name |-> <<"l","t">>,     char |-> "<"],
              [name |-> <<"g","t">>,     char |-> ">"] }

\* html.unescape(): one left-to-right pass, replaced text is not rescanned
RECURSIVE html_unescape(_)
html_unescape(s) ==
    IF s = <<>> THEN <<>>
    ELSE IF Head(s) = "&" /\ \E e \in ENTITIES : StartsWith(Tail(s), e.name)
    THEN LET e    == CHOOSE x \in ENTITIES : StartsWith(Tail(s), x.name)
             rest == SubSeq(s, 2 + Len(e.name), Len(s))
             tl   == IF rest # <<>> /\ Head(rest) = ";" THEN Tail(rest) ELSE rest
         IN <<e.char>> \o html_unescape(tl)
    ELSE <<Head(s)>> \o html_unescape(Tail(s))

-----------------------------------------------------------------------------
(* Record model *)

\* hashlib.sha256(url).hexdigest()[:16]: a deterministic function of the url
\* alone, taken to be collision-free on the urls of the model
_make_id(url) == <<"sha256:16", url>>

Job(title, company, location, url, source) ==
    [id |-> _make_id(url), title |-> title, company |-> company,
     location |-> location, url |-> url, source |-> source,
     salary |-> <<>>, posted |-> <<>>]

\* the postings of a list, and their identities
Elems(jobs) == {jobs[i] : i \in 1..Len(jobs)}
IdsOf(jobs) == {jobs[i].id : i \in 1..Len(jobs)}

-----------------------------------------------------------------------------
(* fetch_all *)

\* re.sub(r"\s*\(.*?\)\s*$", "", t) on a stripped t: the leftmost "(" that a
\* final ")" closes is removed with the blanks before it and all that follows
sub_trailing_paren(t) ==
    IF t # <<>> /\ t[Len(t)] = ")" /\ \E q \in 1..(Len(t) - 1) : t[q] = "("
    THEN LET q == CHOOSE x \in 1..(Len(t) - 1) :
                      t[x] = "(" /\ \A y \in 1..(x - 1) : t[y] # "("
             p == CHOOSE x \in 1..q :
                      /\ \A y \in x..(q - 1) : IsSpace(t[y])
                      /\ (x = 1 \/ ~IsSpace(t[x - 1]))
         IN SubSeq(t, 1, p - 1)
    ELSE t

_title_company_key(job) ==
    LET t == strip(lower(html_unescape(job.title)))
        c == strip(lower(html_unescape(job.company)))
    IN strip(sub_trailing_paren(t)) \o <<"|","|">> \o c

\* one iteration of fetch_all's inner loop: acc holds all_jobs, seen_ids and
\* seen_title_company
merge_one_both(acc, job) ==
    LET tc_key == _title_company_key(job) IN
    IF job.id \in acc.seen_ids /\ tc_key \in acc.seen_title_company
    THEN acc
    ELSE [all_jobs |-> Append(acc.all_jobs, job),
          seen_ids |-> acc.seen_ids \cup {job.id},
          seen_title_company |-> acc.seen_title_company \cup {tc_key}]

merge_one_id_only(acc, job) ==
    LET tc_key == _title_company_key(job) IN
    IF job.id \in acc.seen_ids
    THEN acc
    ELSE [all_jobs |-> Append(acc.all_jobs, job),
          seen_ids |-> acc.seen_ids \cup {job.id},
          seen_title_company |-> acc.seen_title_company \cup {tc_key}]

merge_one(acc, job) ==
    LET tc_key == _title_company_key(job) IN
    IF job.id \in acc.seen_ids \/ tc_key \in acc.seen_title_company
    THEN acc
    ELSE [all_jobs |-> Append(acc.all_jobs, job),
          seen_ids |-> acc.seen_ids \cup {job.id},
          seen_title_company |-> acc.seen_title_company \cup {tc_key}]


\* the inner loop over one adapter's list
RECURSIVE merge_all(_, _)
merge_all(acc, jobs) ==
    IF jobs = <<>> THEN acc
    ELSE merge_all(merge_one(acc, Head(jobs)), Tail(jobs))

\* the adapters modelled, in declared order: the first NumBoards positions of
\* BOARDS
NumBoards == 3
BOARDS == 1..NumBoards

RECURSIVE merge_boards(_, _, _)
merge_boards(acc, outs, b) ==
    IF b > NumBoards THEN acc
    ELSE merge_boards(merge_all(acc, outs[b]), outs, b + 1)

EmptyAcc == [all_jobs |-> <<>>, seen_ids |-> {}, seen_title_company |-> {}]

\* fetch_all() when adapter b returns outs[b]
fetch_all(outs) == merge_boards(EmptyAcc, outs, 1).all_jobs

-----------------------------------------------------------------------------
(* The postings the adapters can return *)

URL1 == <<"h","t","t","p","s",":","/","/","x","/","1">>
URL2 == <<"h","t","t","p","s",":","/","/","y","/","1">>
URL3 == <<"h","t","t","p","s",":","/","/","z","/","1">>
URL4 == <<"h","t","t","p","s",":","/","/","w","/","1">>

T_GrowthLead      == <<"G","r","o","w","t","h"," ","L","e","a","d">>
T_growth_lead_rem == <<"g","r","o","w","t","h"," ","l","e","a","d"," "," ","(","R","e","m","o","t","e",")">>
T_BackendEngineer == <<"B","a","c","k","e","n","d"," ","E","n","g","i","n","e","e","r">>
T_RnD_escaped     == <<"R","&","a","m","p",";","D"," ","L","e","a","d">>
T_RnD             == <<"R","&","D"," ","L","e","a","d">>
C_Acme            == <<"A","c","m","e">>
C_ACME_sp         == <<"A","C","M","E"," ">>
C_acme            == <<"a","c","m","e">>
L_Remote          == <<"R","e","m","o","t","e">>

P1 == Job(T_GrowthLead,      C_Acme,    L_Remote, URL1, <<"A">>)
P2 == Job(T_growth_lead_rem, C_ACME_sp, L_Remote, URL2, <<"B">>)
P3 == Job(T_BackendEngineer, <<>>,      L_Remote, URL2, <<"B">>)
P4 == Job(T_BackendEngineer, <<>>,      L_Remote, URL3, <<"C">>)
P5 == Job(T_RnD_escaped,     C_Acme,    <<>>,     URL1, <<"A">>)
P6 == Job(T_RnD,             C_acme,    <<>>,     URL4, <<"C">>)

POSTINGS == {P1, P2, P3, P4, P5, P6}

\* records produced by all adapters together during one fetch_all
MaxRecords == 3

-----------------------------------------------------------------------------
(* config.py: the settings read from the environment when the process starts *)

\* a configuration cfg holds JOB_ROLES, LOCATION_TYPE and PREFERRED_LOCATIONS;
\* these are the values config.py falls back to when the environment sets none
DEFAULT_ENV ==
    [JOB_ROLES |-> << <<"m","a","r","k","e","t","i","n","g">> >>,
     LOCATION_TYPE |-> "remote",
     PREFERRED_LOCATIONS |-> <<>>,
     SILENT_IF_EMPTY |-> TRUE]

-----------------------------------------------------------------------------
(* filters.py *)

MAX_AGE_DAYS == 45

ROLE_PRESETS ==
    (<<"m","a","r","k","e","t","i","n","g">> :> <<
        <<"m","a","r","k","e","t","i","n","g">>,
        <<"g","r","o","w","t","h"," ","m","a","r","k","e","t","e","r">>,
        <<"g","r","o","w","t","h"," ","m","a","n","a","g","e","r">>,
        <<"g","r","o","w","t","h"," ","l","e","a","d">>,
        <<"g","r","o","w","t","h"," ","d","i","r","e","c","t","o","r">>,
        <<"c","o","m","m","u","n","i","t","y">>,
        <<"c","o","n","t","e","n","t">>,
        <<"b","r","a","n","d">>,
        <<"g","t","m">>,
        <<"g","o","-","t","o","-","m","a","r","k","e","t">>,
        <<"p","a","r","t","n","e","r","s","h","i","p","s">>,
        <<"k","o","l">>,
        <<"s","o","c","i","a","l"," ","m","e","d","i","a">>,
        <<"c","o","m","m","u","n","i","c","a","t","i","o","n","s">>,
        <<" ","p","r"," ">>,
        <<"p","u","b","l","i","c"," ","r","e","l","a","t","i","o","n","s">>,
        <<"c","u","s","t","o","m","e","r"," ","a","c","q","u","i","s","i","t","i","o","n">>,
        <<"u","s","e","r"," ","a","c","q","u","i","s","i","t","i","o","n">>,
        <<"a","m","b","a","s","s","a","d","o","r">>,
        <<"i","n","f","l","u","e","n","c","e","r">>,
        <<"c","a","m","p","a","i","g","n">>,
        <<"n","a","r","r","a","t","i","v","e">>,
        <<"e","c","o","s","y","s","t","e","m">>,
        <<"d","e","v","r","e","l">>,
        <<"d","e","v","e","l","o","p","e","r"," ","r","e","l","a","t","i","o","n","s">>,
        <<"d","e","m","a","n","d"," ","g","e","n","e","r","a","t","i","o","n">>,
        <<"p","r","o","d","u","c","t"," ","m","a","r","k","e","t","i","n","g">>,
        <<"g","r","o","w","t","h"," ","m","a","r","k","e","t","i","n","g">>
    >>)
    @@ (<<"e","n","g","i","n","e","e","r","i","n","g">> :> <<
        <<"e","n","g","i","n","e","e","r">>,
        <<"d","e","v","e","l","o","p","e","r">>,
        <<"s","o","l","i","d","i","t","y">>,
        <<"s","m","a","r","t"," ","c","o","n","t","r","a","c","t">>,
        <<"b","l","o","c","k","c","h","a","i","n"," ","d","e","v","e","l","o","p","e","r">>,
        <<"b","a","c","k","e","n","d">>,
        <<"f","r","o","n","t","e","n","d">>,
        <<"f","u","l","l"," ","s","t","a","c","k">>,
        <<"f","u","l","l","s","t","a","c","k">>,
        <<"r","u","s","t"," ","d","e","v","e","l","o","p","e","r">>,
        <<"t","y","p","e","s","c","r","i","p","t"," ","d","e","v","e","l","o","p","e","r">>,
        <<"w","e","b","3"," ","d","e","v","e","l","o","p","e","r">>,
        <<"p","r","o","t","o","c","o","l"," ","e","n","g","i","n","e","e","r">>,
        <<"i","n","f","r","a","s","t","r","u","c","t","u","r","e"," ","e","n","g","i","n","e","e","r">>,
        <<"d","a","p","p">>,
        <<"e","v","m">>,
        <<"z","k","p">>,
        <<"z","e","r","o"," ","k","n","o","w","l","e","d","g","e">>,
        <<"c","r","y","p","t","o","g","r","a","p","h","y"," ","e","n","g","i","n","e","e","r">>
    >>)
    @@ (<<"l","e","g","a","l">> :> <<
        <<"l","e","g","a","l">>,
        <<"c","o","m","p","l","i","a","n","c","e">>,
        <<"c","o","u","n","s","e","l">>,
        <<"r","e","g","u","l","a","t","o","r","y">>,
        <<"p","o","l","i","c","y">>,
        <<"g","e","n","e","r","a","l"," ","c","o","u","n","s","e","l">>,
        <<"l","e","g","a","l"," ","o","f","f","i","c","e","r">>,
        <<"c","h","i","e","f"," ","l","e","g","a","l">>
    >>)
    @@ (<<"d","e","s","i","g","n">> :> <<
        <<"d","e","s","i","g","n","e","r">>,
        <<" ","d","e","s","i","g","n">>,
        <<"u","x"," ">>,
        <<"u","i","/","u","x">>,
        <<"u","i"," ">>,
        <<"p","r","o","d","u","c","t"," ","d","e","s","i","g","n">>,
        <<"v","i","s","u","a","l"," ","d","e","s","i","g","n">>,
        <<"g","r","a","p","h","i","c"," ","d","e","s","i","g","n","e","r">>,
        <<"c","r","e","a","t","i","v","e"," ","d","i","r","e","c","t","o","r">>,
        <<"m","o","t","i","o","n"," ","d","e","s","i","g","n","e","r">>
    >>)
    @@ (<<"p","r","o","d","u","c","t">> :> <<
        <<"p","r","o","d","u","c","t"," ","m","a","n","a","g","e","r">>,
        <<"p","r","o","d","u","c","t"," ","l","e","a","d">>,
        <<"h","e","a","d"," ","o","f"," ","p","r","o","d","u","c","t">>,
        <<"p","r","o","d","u","c","t"," ","o","w","n","e","r">>,
        <<"c","h","i","e","f"," ","p","r","o","d","u","c","t">>,
        <<"v","p"," ","p","r","o","d","u","c","t">>,
        <<"p","r","o","d","u","c","t"," ","d","i","r","e","c","t","o","r">>
    >>)
    @@ (<<"o","p","e","r","a","t","i","o","n","s">> :> <<
        <<"o","p","e","r","a","t","i","o","n","s"," ","m","a","n","a","g","e","r">>,
        <<"o","p","s"," ","m","a","n","a","g","e","r">>,
        <<"c","h","i","e","f"," ","o","f"," ","s","t","a","f","f">>,
        <<"f","i","n","a","n","c","e"," ","m","a","n","a","g","e","r">>,
        <<"p","e","o","p","l","e"," ","o","p","e","r","a","t","i","o","n","s">>,
        <<"h","e","a","d"," ","o","f"," ","o","p","e","r","a","t","i","o","n","s">>,
        <<"t","r","e","a","s","u","r","y">>,
        <<"f","i","n","a","n","c","i","a","l"," ","c","o","n","t","r","o","l","l","e","r">>
    >>)
    @@ (<<"b","d">> :> <<
        <<"b","u","s","i","n","e","s","s"," ","d","e","v","e","l","o","p","m","e","n","t">>,
        <<"b","d"," ","m","a","n","a","g","e","r">>,
        <<"b","d"," ","l","e","a","d">>,
        <<"h","e","a","d"," ","o","f"," ","b","d">>,
        <<"a","c","c","o","u","n","t"," ","e","x","e","c","u","t","i","v","e">>,
        <<"a","c","c","o","u","n","t"," ","m","a","n","a","g","e","r">>,
        <<"r","e","v","e","n","u","e">>,
        <<"p","a","r","t","n","e","r"," ","m","a","n","a","g","e","r">>,
        <<"h","e","a","d"," ","o","f"," ","s","a","l","e","s">>,
        <<"s","a","l","e","s"," ","m","a","n","a","g","e","r">>,
        <<"p","a","r","t","n","e","r","s","h","i","p","s"," ","m","a","n","a","g","e","r">>
    >>)
    @@ (<<"r","e","s","e","a","r","c","h">> :> <<
        <<"r","e","s","e","a","r","c","h","e","r">>,
        <<"r","e","s","e","a","r","c","h"," ","a","n","a","l","y","s","t">>,
        <<"p","r","o","t","o","c","o","l"," ","r","e","s","e","a","r","c","h","e","r">>,
        <<"s","e","c","u","r","i","t","y"," ","r","e","s","e","a","r","c","h","e","r">>,
        <<"e","c","o","n","o","m","i","s","t">>,
        <<"q","u","a","n","t","i","t","a","t","i","v","e"," ","r","e","s","e","a","r","c","h","e","r">>,
        <<"c","r","y","p","t","o","g","r","a","p","h","e","r">>,
        <<"d","e","f","i"," ","r","e","s","e","a","r","c","h","e","r">>
    >>)
    @@ (<<"d","a","t","a">> :> <<
        <<"d","a","t","a"," ","a","n","a","l","y","s","t">>,
        <<"d","a","t","a"," ","s","c","i","e","n","t","i","s","t">>,
        <<"d","a","t","a"," ","e","n","g","i","n","e","e","r">>,
        <<"a","n","a","l","y","t","i","c","s"," ","e","n","g","i","n","e","e","r">>,
        <<"b","u","s","i","n","e","s","s"," ","i","n","t","e","l","l","i","g","e","n","c","e">>,
        <<"d","a","t","a"," ","l","e","a","d">>,
        <<"h","e","a","d"," ","o","f"," ","d","a","t","a">>,
        <<"q","u","a","n","t","i","t","a","t","i","v","e"," ","a","n","a","l","y","s","t">>
    >>)

ROLE_EXCLUDE_PHRASES ==
    (<<"m","a","r","k","e","t","i","n","g">> :> <<
        <<"f","r","o","n","t","e","n","d"," ","e","n","g","i","n","e","e","r">>,
        <<"b","a","c","k","e","n","d"," ","e","n","g","i","n","e","e","r">>,
        <<"s","o","f","t","w","a","r","e"," ","e","n","g","i","n","e","e","r">>,
        <<"e","n","g","i","n","e","e","r","i","n","g"," ","m","a","n","a","g","e","r">>,
        <<"e","n","g","i","n","e","e","r","i","n","g"," ","d","i","r","e","c","t","o","r">>,
        <<"d","a","t","a"," ","e","n","g","i","n","e","e","r">>,
        <<"p","r","i","n","c","i","p","a","l"," ","e","n","g","i","n","e","e","r">>,
        <<"a","l","g","o","r","i","t","h","m"," ","e","n","g","i","n","e","e","r">>,
        <<"c","o","n","t","e","n","t"," ","d","e","l","i","v","e","r","y">>,
        <<"c","o","n","t","e","n","t"," ","m","o","d","e","r","a","t","o","r">>,
        <<"c","o","n","t","e","n","t"," ","m","o","d","e","r","a","t","i","o","n">>,
        <<"h","u","m","a","n"," ","r","e","s","o","u","r","c","e","s">>,
        <<"h","r"," ","l","e","a","d">>,
        <<"h","r"," ","m","a","n","a","g","e","r">>,
        <<"r","e","c","r","u","i","t","i","n","g">>,
        <<"r","e","c","r","u","i","t","e","r">>,
        <<"l","e","g","a","l"," ","c","o","u","n","s","e","l">>,
        <<"r","i","s","k"," ","m","a","n","a","g","e","r">>,
        <<"f","i","n","a","n","c","i","a","l"," ","a","n","a","l","y","s","t">>,
        <<"d","a","t","a"," ","a","n","a","l","y","s","t">>,
        <<"d","a","t","a"," ","s","c","i","e","n","t","i","s","t">>,
        <<"m","a","c","h","i","n","e"," ","l","e","a","r","n","i","n","g">>,
        <<"q","a"," ","e","n","g","i","n","e","e","r">>,
        <<"q","a"," ","l","e","a","d">>,
        <<"s","e","c","u","r","i","t","y"," ","e","n","g","i","n","e","e","r">>,
        <<"s","e","c","u","r","i","t","y"," ","a","n","a","l","y","s","t">>,
        <<"n","e","t","w","o","r","k"," ","e","n","g","i","n","e","e","r">>,
        <<"s","i","t","e"," ","r","e","l","i","a","b","i","l","i","t","y">>,
        <<"d","e","v","o","p","s">>
    >>)
    @@ (<<"e","n","g","i","n","e","e","r","i","n","g">> :> <<
        <<"m","a","r","k","e","t","i","n","g"," ","m","a","n","a","g","e","r">>,
        <<"c","o","n","t","e","n","t"," ","m","a","n","a","g","e","r">>,
        <<"c","o","m","m","u","n","i","t","y"," ","m","a","n","a","g","e","r">>,
        <<"b","r","a","n","d"," ","m","a","n","a","g","e","r">>,
        <<"s","o","c","i","a","l"," ","m","e","d","i","a"," ","m","a","n","a","g","e","r">>,
        <<"r","e","c","r","u","i","t","i","n","g">>,
        <<"r","e","c","r","u","i","t","e","r">>
    >>)
    @@ (<<"l","e","g","a","l">> :> <<
        <<"m","a","r","k","e","t","i","n","g">>,
        <<"e","n","g","i","n","e","e","r","i","n","g">>,
        <<"d","e","s","i","g","n">>,
        <<"r","e","c","r","u","i","t","e","r">>
    >>)
    @@ (<<"d","e","s","i","g","n">> :> <<
        <<"m","a","r","k","e","t","i","n","g"," ","m","a","n","a","g","e","r">>,
        <<"e","n","g","i","n","e","e","r","i","n","g">>,
        <<"r","e","c","r","u","i","t","e","r">>
    >>)
    @@ (<<"p","r","o","d","u","c","t">> :> <<
        <<"m","a","r","k","e","t","i","n","g">>,
        <<"r","e","c","r","u","i","t","e","r">>
    >>)
    @@ (<<"o","p","e","r","a","t","i","o","n","s">> :> <<
        <<"r","e","c","r","u","i","t","e","r">>,
        <<"t","a","l","e","n","t"," ","a","c","q","u","i","s","i","t","i","o","n">>
    >>)
    @@ (<<"b","d">> :> <<
        <<"m","a","r","k","e","t","i","n","g"," ","m","a","n","a","g","e","r">>,
        <<"e","n","g","i","n","e","e","r","i","n","g">>,
        <<"r","e","c","r","u","i","t","e","r">>
    >>)
    @@ (<<"r","e","s","e","a","r","c","h">> :> <<
        <<"r","e","c","r","u","i","t","e","r">>,
        <<"m","a","r","k","e","t","i","n","g"," ","m","a","n","a","g","e","r">>
    >>)
    @@ (<<"d","a","t","a">> :> <<
        <<"r","e","c","r","u","i","t","e","r">>,
        <<"m","a","r","k","e","t","i","n","g"," ","m","a","n","a","g","e","r">>,
        <<"c","o","m","m","u","n","i","t","y"," ","m","a","n","a","g","e","r">>
    >>)

\* a list without its repeated elements, first occurrences kept in order
RECURSIVE dedup_keep_order(_, _)
dedup_keep_order(l, seen) ==
    IF l = <<>> THEN <<>>
    ELSE IF Head(l) \in seen THEN dedup_keep_order(Tail(l), seen)
    ELSE <<Head(l)>> \o dedup_keep_order(Tail(l), seen \cup {Head(l)})

RECURSIVE extend_presets(_)
extend_presets(roles) ==
    IF roles = <<>> THEN <<>>
    ELSE (IF Head(roles) \in DOMAIN ROLE_PRESETS
          THEN ROLE_PRESETS[Head(roles)] ELSE <<Head(roles)>>)
         \o extend_presets(Tail(roles))

_build_include_keywords(JOB_ROLES) == dedup_keep_order(extend_presets(JOB_ROLES), {})

RECURSIVE extend_excludes(_)
extend_excludes(roles) ==
    IF roles = <<>> THEN <<>>
    ELSE (IF Head(roles) \in DOMAIN ROLE_EXCLUDE_PHRASES
          THEN ROLE_EXCLUDE_PHRASES[Head(roles)] ELSE <<>>)
         \o extend_excludes(Tail(roles))

\* the exclusion phrases of the first selected role only
_build_exclude_phrases_first_role(JOB_ROLES) ==
    IF JOB_ROLES = <<>> THEN <<>>
    ELSE dedup_keep_order(extend_excludes(<<JOB_ROLES[1]>>), {})

_build_exclude_phrases(JOB_ROLES) == dedup_keep_order(extend_excludes(JOB_ROLES), {})

\* the module globals, built when filters.py is imported under cfg
INCLUDE_KEYWORDS(cfg) == _build_include_keywords(cfg.JOB_ROLES)
EXCLUDE_TITLE_PHRASES(cfg) == _build_exclude_phrases(cfg.JOB_ROLES)

_REMOTE_KEYWORDS == <<
    <<"r","e","m","o","t","e">>,
    <<"w","o","r","l","d","w","i","d","e">>,
    <<"g","l","o","b","a","l">>,
    <<"a","n","y","w","h","e","r","e">>,
    <<"d","i","s","t","r","i","b","u","t","e","d">>
>>

US_RESTRICTED_PATTERNS == <<
    <<"u","s"," ","o","n","l","y">>,
    <<"u","s"," ","c","i","t","i","z","e","n">>,
    <<"m","u","s","t"," ","b","e"," ","i","n"," ","u","s">>,
    <<"u","s"," ","w","o","r","k"," ","a","u","t","h","o","r","i","z","a","t","i","o","n">>,
    <<"r","e","m","o","t","e"," ","-"," ","u","s","a">>,
    <<"r","e","m","o","t","e",","," ","u","s","a">>,
    <<"r","e","m","o","t","e"," ","-"," ","u","s">>,
    <<"r","e","m","o","t","e",","," ","u","s">>,
    <<"u","s"," ","/"," ","r","e","m","o","t","e">>,
    <<"r","e","m","o","t","e"," ","(","u","s",")">>,
    <<"r","e","m","o","t","e"," ","(","u","s","a",")">>,
    <<"r","e","m","o","t","e"," ","(","u","n","i","t","e","d"," ","s","t","a","t","e","s",")">>,
    <<"u","n","i","t","e","d"," ","s","t","a","t","e","s">>,
    <<"n","e","w"," ","y","o","r","k">>,
    <<"s","a","n"," ","f","r","a","n","c","i","s","c","o">>,
    <<"a","u","s","t","i","n">>,
    <<"l","o","s"," ","a","n","g","e","l","e","s">>,
    <<"b","o","s","t","o","n">>,
    <<"c","h","i","c","a","g","o">>,
    <<"s","e","a","t","t","l","e">>,
    <<"m","i","a","m","i">>,
    <<"d","e","n","v","e","r">>,
    <<"n","y","c">>,
    <<"b","a","y"," ","a","r","e","a">>,
    <<"s","i","l","i","c","o","n"," ","v","a","l","l","e","y">>,
    <<"r","e","m","o","t","e"," ","-"," ","n","y">>,
    <<"r","e","m","o","t","e"," ","-"," ","c","a">>,
    <<"c","a","l","i","f","o","r","n","i","a">>,
    <<"t","e","x","a","s">>,
    <<"w","a","s","h","i","n","g","t","o","n",","," ","d">>
>>

ONSITE_PATTERNS == <<
    <<"o","n","-","s","i","t","e">>,
    <<"o","n","s","i","t","e">>,
    <<"i","n","-","o","f","f","i","c","e">>
>>

_decode(text) == html_unescape(text)

\* any(p in text for p in patterns)
AnyIn(patterns, text) == \E k \in 1..Len(patterns) : Contains(patterns[k], text)

-----------------------------------------------------------------------------
(* _parse_posted_date: times are whole seconds since the epoch, UTC *)

DIGITS == <<"0","1","2","3","4","5","6","7","8","9">>
IsDigit(c) == \E k \in 1..10 : DIGITS[k] = c
DigitVal(c) == (CHOOSE k \in 1..10 : DIGITS[k] = c) - 1
AllDigits(s) == \A i \in 1..Len(s) : IsDigit(s[i])

\* int(s) of a string of digits
RECURSIVE ToInt(_)
ToInt(s) ==
    IF s = <<>> THEN 0
    ELSE 10 * ToInt(SubSeq(s, 1, Len(s) - 1)) + DigitVal(s[Len(s)])

\* None, a datetime with tzinfo, and a naive datetime (tzinfo None)
NoDate == [some |-> FALSE, ts |-> 0, aware |-> TRUE]
Date(ts) == [some |-> TRUE, ts |-> ts, aware |-> TRUE]
Naive(ts) == [some |-> TRUE, ts |-> ts, aware |-> FALSE]

IsLeap(y) == (y % 4 = 0 /\ y % 100 # 0) \/ y % 400 = 0
DaysInMonth(y, m) ==
    IF m = 2 THEN (IF IsLeap(y) THEN 29 ELSE 28)
    ELSE IF m \in {4, 6, 9, 11} THEN 30 ELSE 31

\* days from 1970-01-01 to the civil date y-m-d
DaysFromCivil(y, m, d) ==
    LET yy  == IF m <= 2 THEN y - 1 ELSE y
        era == yy \div 400
        yoe == yy - era * 400
        mp  == IF m > 2 THEN m - 3 ELSE m + 9
        doy == (153 * mp + 2) \div 5 + d - 1
        doe == yoe * 365 + yoe \div 4 - yoe \div 100 + doy
    IN era * 146097 + doe - 719468

\* the fields "YYYY-MM-DD" of a zero-padded date text, or none
IsDateText(s) ==
    /\ Len(s) = 10
    /\ s[5] = "-" /\ s[8] = "-"
    /\ AllDigits(SubSeq(s, 1, 4)) /\ AllDigits(SubSeq(s, 6, 7)) /\ AllDigits(SubSeq(s, 9, 10))
    /\ ToInt(SubSeq(s, 1, 4)) >= 1
    /\ ToInt(SubSeq(s, 6, 7)) \in 1..12
    /\ ToInt(SubSeq(s, 9, 10)) \in 1..DaysInMonth(ToInt(SubSeq(s, 1, 4)), ToInt(SubSeq(s, 6, 7)))

\* the fields "HH:MM:SS" of a zero-padded time text, or none
IsTimeText(s) ==
    /\ Len(s) = 8
    /\ s[3] = ":" /\ s[6] = ":"
    /\ AllDigits(SubSeq(s, 1, 2)) /\ AllDigits(SubSeq(s, 4, 5)) /\ AllDigits(SubSeq(s, 7, 8))
    /\ ToInt(SubSeq(s, 1, 2)) <= 23
    /\ ToInt(SubSeq(s, 4, 5)) <= 59
    /\ ToInt(SubSeq(s, 7, 8)) <= 61

DateSeconds(s) ==
    86400 * DaysFromCivil(ToInt(SubSeq(s, 1, 4)), ToInt(SubSeq(s, 6, 7)), ToInt(SubSeq(s, 9, 10)))

TimeSeconds(s) ==
    3600 * ToInt(SubSeq(s, 1, 2)) + 60 * ToInt(SubSeq(s, 4, 5)) + ToInt(SubSeq(s, 7, 8))

\* datetime.strptime(posted[:19], fmt[:19]) over the six formats, for
\* zero-padded texts: within 19 characters only "%Y-%m-%dT%H:%M:%S",
\* "%Y-%m-%d %H:%M:%S" and "%Y-%m-%d" can match such a text
strptime_iso(posted) ==
    LET p == SubSeq(posted, 1, IF Len(posted) < 19 THEN Len(posted) ELSE 19) IN
    IF /\ Len(p) = 19
       /\ p[11] \in {"T", " "}
       /\ IsDateText(SubSeq(p, 1, 10))
       /\ IsTimeText(SubSeq(p, 12, 19))
    THEN Date(DateSeconds(SubSeq(p, 1, 10)) + TimeSeconds(SubSeq(p, 12, 19)))
    ELSE IF IsDateText(p) THEN Date(DateSeconds(p))
    ELSE NoDate

MONTHS == << <<"J","a","n">>, <<"F","e","b">>, <<"M","a","r">>, <<"A","p","r">>,
             <<"M","a","y">>, <<"J","u","n">>, <<"J","u","l">>, <<"A","u","g">>,
             <<"S","e","p">>, <<"O","c","t">>, <<"N","o","v">>, <<"D","e","c">> >>

\* email.utils.parsedate_to_datetime on the feed shape
\* "Ddd, DD Mon YYYY HH:MM:SS" followed by " GMT" (a datetime in UTC), by
\* " -0000" or by nothing (a naive datetime); any other text does not parse
parsedate_to_datetime(posted) ==
    IF /\ Len(posted) \in {25, 29, 31}
       /\ posted[4] = "," /\ posted[5] = " " /\ posted[8] = " "
       /\ posted[12] = " " /\ posted[17] = " "
       /\ SubSeq(posted, 26, Len(posted)) \in
              {<<>>, <<" ","G","M","T">>, <<" ","-","0","0","0","0">>}
       /\ AllDigits(SubSeq(posted, 6, 7)) /\ AllDigits(SubSeq(posted, 13, 16))
       /\ \E k \in 1..12 : MONTHS[k] = SubSeq(posted, 9, 11)
       /\ IsTimeText(SubSeq(posted, 18, 25))
       /\ LET y == ToInt(SubSeq(posted, 13, 16))
              m == CHOOSE k \in 1..12 : MONTHS[k] = SubSeq(posted, 9, 11)
          IN ToInt(SubSeq(posted, 6, 7)) \in 1..DaysInMonth(y, m)
    THEN LET y  == ToInt(SubSeq(posted, 13, 16))
             m  == CHOOSE k \in 1..12 : MONTHS[k] = SubSeq(posted, 9, 11)
             d  == ToInt(SubSeq(posted, 6, 7))
             ts == 86400 * DaysFromCivil(y, m, d) + TimeSeconds(SubSeq(posted, 18, 25))
         IN IF Len(posted) = 29 THEN Date(ts) ELSE Naive(ts)
    ELSE NoDate

_parse_posted_date(posted0) ==
    LET posted == strip(posted0) IN
    IF posted0 = <<>> THEN NoDate
    ELSE IF posted = <<>> \/ posted = <<"N","o","n","e">> \/ posted = <<"0">> THEN NoDate
    ELSE IF Len(posted) = 13 /\ AllDigits(posted) THEN Date(ToInt(SubSeq(posted, 1, 10)))
    ELSE IF Len(posted) = 10 /\ AllDigits(posted) THEN Date(ToInt(posted))
    ELSE IF strptime_iso(posted).some THEN strptime_iso(posted)
    ELSE parsedate_to_datetime(posted)

\* dt < cutoff with a naive dt and the aware cutoff raises TypeError
_is_too_old_raises(job) ==
    LET dt == _parse_posted_date(job.posted) IN dt.some /\ ~dt.aware

\* now: datetime.now(timezone.utc); the value returned when the comparison
\* does not raise
_is_too_old(job, now) ==
    LET dt == _parse_posted_date(job.posted) IN
    IF ~dt.some THEN FALSE
    ELSE dt.ts < now - MAX_AGE_DAYS * 86400

_matches_include(cfg, title) ==
    LET t == lower(_decode(title)) IN AnyIn(INCLUDE_KEYWORDS(cfg), t)

PRODUCT_MANAGER   == <<"p","r","o","d","u","c","t"," ","m","a","n","a","g","e","r">>
PRODUCT_MARKETING == <<"p","r","o","d","u","c","t"," ","m","a","r","k","e","t","i","n","g">>
GROWTH_MARKETING  == <<"g","r","o","w","t","h"," ","m","a","r","k","e","t","i","n","g">>

\* exclusion by the phrases of every role, selected or not
_is_excluded_title_all_roles(cfg, title) ==
    LET t == lower(_decode(title)) IN
    \E role \in DOMAIN ROLE_EXCLUDE_PHRASES :
        \E k \in 1..Len(ROLE_EXCLUDE_PHRASES[role]) :
            Contains(ROLE_EXCLUDE_PHRASES[role][k], t)

_is_excluded_title(cfg, title) ==
    LET t == lower(_decode(title)) IN
    \E k \in 1..Len(EXCLUDE_TITLE_PHRASES(cfg)) :
        LET phrase == EXCLUDE_TITLE_PHRASES(cfg)[k] IN
        /\ Contains(phrase, t)
        /\ ~(/\ phrase = PRODUCT_MANAGER
             /\ (Contains(PRODUCT_MARKETING, t) \/ Contains(GROWTH_MARKETING, t)))

\* the location check without the US-restriction blocklist
_is_location_allowed_no_us(cfg, job) ==
    IF cfg.LOCATION_TYPE = "any" THEN TRUE
    ELSE LET loc == strip(lower(_decode(job.location))) IN
         IF loc = <<>> THEN TRUE
         ELSE IF AnyIn(ONSITE_PATTERNS, loc) THEN FALSE
         ELSE \/ AnyIn(_REMOTE_KEYWORDS, loc)
              \/ cfg.LOCATION_TYPE = "specific" /\ AnyIn(cfg.PREFERRED_LOCATIONS, loc)

_is_location_allowed(cfg, job) ==
    IF cfg.LOCATION_TYPE = "any" THEN TRUE
    ELSE LET loc == strip(lower(_decode(job.location))) IN
         IF loc = <<>> THEN TRUE
         ELSE IF AnyIn(ONSITE_PATTERNS, loc) THEN FALSE
         ELSE IF cfg.LOCATION_TYPE = "remote"
         THEN IF AnyIn(US_RESTRICTED_PATTERNS, loc) THEN FALSE
              ELSE AnyIn(_REMOTE_KEYWORDS, loc)
         ELSE IF cfg.LOCATION_TYPE = "specific"
         THEN IF AnyIn(_REMOTE_KEYWORDS, loc)
              THEN ~AnyIn(US_RESTRICTED_PATTERNS, loc)
              ELSE AnyIn(cfg.PREFERRED_LOCATIONS, loc)
         ELSE FALSE

\* the loop of apply_filters: four checks in order, each ending the
\* iteration with `continue`
RECURSIVE filter_loop(_, _, _, _)
filter_loop(cfg, jobs, now, result) ==
    IF jobs = <<>> THEN result
    ELSE LET job == Head(jobs) IN
         filter_loop(cfg, Tail(jobs), now,
            IF ~_matches_include(cfg, job.title) THEN result
            ELSE IF _is_excluded_title(cfg, job.title) THEN result
            ELSE IF ~_is_location_allowed(cfg, job) THEN result
            ELSE IF _is_too_old(job, now) THEN result
            ELSE Append(result, job))

apply_filters(cfg, jobs, now) == filter_loop(cfg, jobs, now, <<>>)

\* apply_filters has no try: the TypeError of the age check of a posting that
\* passed the three checks before it leaves apply_filters
apply_filters_raises(cfg, jobs) ==
    \E i \in 1..Len(jobs) :
        /\ _matches_include(cfg, jobs[i].title)
        /\ ~_is_excluded_title(cfg, jobs[i].title)
        /\ _is_location_allowed(cfg, jobs[i])
        /\ _is_too_old_raises(jobs[i])

-----------------------------------------------------------------------------
(* notifier.py *)

MAX_MSG_LEN == 4096

\* _sort_by_recency's key of a sorts after that of b; a date that does not
\* parse counts as datetime.min
Newer(a, b) ==
    LET da == _parse_posted_date(a.posted)
        dYb == _parse_posted_date(b.posted)
    IN da.some /\ (~dYb.some \/ da.ts > dYb.ts)

RECURSIVE insert_by_recency(_, _)
insert_by_recency(sorted, j) ==
    IF sorted = <<>> THEN <<j>>
    ELSE IF Newer(j, Head(sorted)) THEN <<j>> \o sorted
    ELSE <<Head(sorted)>> \o insert_by_recency(Tail(sorted), j)

\* sorted(jobs, key=_key, reverse=True): newest first, stable
RECURSIVE _sort_by_recency(_)
_sort_by_recency(jobs) ==
    IF jobs = <<>> THEN <<>>
    ELSE insert_by_recency(_sort_by_recency(SubSeq(jobs, 1, Len(jobs) - 1)),
                           jobs[Len(jobs)])

\* one element per code point; the emoji are written by name
_format_job(job) ==
    LET salary_part   == IF job.salary # <<>>
                         THEN <<" ","|"," ","U+1F4B0"," ">> \o job.salary ELSE <<>>
        location_part == IF job.location # <<>> THEN job.location ELSE <<"R","e","m","o","t","e">>
    IN <<"U+1F7E2"," ","*">> \o job.title \o <<"*"," ","U+2014"," ">> \o job.company
       \o <<NL,"U+1F4CD"," ">> \o location_part \o salary_part
       \o <<NL,"U+1F517"," ">> \o <<"[","A","p","p","l","y","]","(">> \o job.url
       \o <<")"," ","U+00B7"," ","_">> \o job.source \o <<"_">>

\* _split_messages' loop; n counts the lines held in current
RECURSIVE split_loop(_, _, _, _)
split_loop(lines, messages, current, n) ==
    IF lines = <<>>
    THEN IF strip(current) # <<>>
         THEN Append(messages, [text |-> strip(current), n |-> n])
         ELSE messages
    ELSE LET block == Head(lines) \o <<NL, NL>> IN
         IF Len(current) + Len(block) > MAX_MSG_LEN
         THEN split_loop(Tail(lines),
                         IF current # <<>>
                         THEN Append(messages, [text |-> strip(current), n |-> n])
                         ELSE messages,
                         block, 1)
         ELSE split_loop(Tail(lines), messages, current \o block, n + 1)

_split_messages(lines) ==
    LET m == split_loop(lines, <<>>, <<>>, 0) IN [k \in 1..Len(m) |-> m[k].text]

\* the postings each message of send_jobs(jobs) carries, in sending order
RECURSIVE group_by(_, _)
group_by(jobs, sizes) ==
    IF sizes = <<>> THEN <<>>
    ELSE <<SubSeq(jobs, 1, Head(sizes))>>
         \o group_by(SubSeq(jobs, Head(sizes) + 1, Len(jobs)), Tail(sizes))

send_jobs_chunks(jobs0) ==
    LET jobs      == _sort_by_recency(jobs0)
        formatted == [k \in 1..Len(jobs) |-> _format_job(jobs[k])]
        m         == split_loop(formatted, <<>>, <<>>, 0)
    IN group_by(jobs, [k \in 1..Len(m) |-> m[k].n])

\* str.title(): a letter is upper-cased after a character that is no letter
\* and lower-cased after a letter
IsLetter(c) == \E k \in 1..Len(UPPER) : c = UPPER[k] \/ c = LOWER[k]

upper_char(c) ==
    IF \E k \in 1..Len(LOWER) : LOWER[k] = c
    THEN UPPER[CHOOSE k \in 1..Len(LOWER) : LOWER[k] = c]
    ELSE c

str_title(s) ==
    [i \in 1..Len(s) |->
        IF i = 1 \/ ~IsLetter(s[i - 1]) THEN upper_char(s[i]) ELSE lower(<<s[i]>>)[1]]

\* " & ".join(labels)
RECURSIVE join_labels(_)
join_labels(labels) ==
    IF labels = <<>> THEN <<>>
    ELSE IF Len(labels) = 1 THEN labels[1]
    ELSE labels[1] \o <<" ", "&", " ">> \o join_labels(Tail(labels))

_role_label(cfg) ==
    LET presets == {<<"m","a","r","k","e","t","i","n","g">>, <<"e","n","g","i","n","e","e","r","i","n","g">>, <<"l","e","g","a","l">>, <<"d","e","s","i","g","n">>, <<"p","r","o","d","u","c","t">>, <<"o","p","e","r","a","t","i","o","n","s">>, <<"b","d">>, <<"r","e","s","e","a","r","c","h">>, <<"d","a","t","a">>}
        chosen  == SelectSeq(cfg.JOB_ROLES, LAMBDA r : r \in presets)
        labels  == IF chosen # <<>> THEN [k \in 1..Len(chosen) |-> str_title(chosen[k])]
                   ELSE IF cfg.JOB_ROLES # <<>> THEN <<str_title(cfg.JOB_ROLES[1])>>
                   ELSE <<<<"W","e","b","3">>>>
    IN join_labels(SubSeq(labels, 1, IF Len(labels) < 2 THEN Len(labels) ELSE 2))

\* str(n) of a natural number
RECURSIVE decimal(_)
decimal(n) ==
    IF n < 10 THEN <<DIGITS[n + 1]>> ELSE decimal(n \div 10) \o <<DIGITS[(n % 10) + 1]>>

\* what send_jobs puts before chunk i of n (counted from 1): the header
\* before the first one, the continuation mark before the others
message_prefix(cfg, njobs, i, n) ==
    IF i = 1
    THEN <<"*", "U+1F680", " ">> \o decimal(njobs) \o <<" ","N","e","w"," ","W","e","b","3"," ">>
         \o _role_label(cfg) \o <<" ","J","o","b">>
         \o (IF njobs # 1 THEN <<"s">> ELSE <<>>) \o <<"*", NL, NL>>
    ELSE <<"_","(","c","o","n","t","i","n","u","e","d"," ">> \o decimal(i) \o <<"/">> \o decimal(n)
         \o <<")", "_", NL, NL>>

\* the texts send_jobs hands to _send, in sending order
send_jobs(cfg, jobs0) ==
    IF jobs0 = <<>>
    THEN IF cfg.SILENT_IF_EMPTY THEN <<>>
         ELSE << <<"N","o"," ","n","e","w"," ","W","e","b","3"," ">> \o _role_label(cfg) \o <<" ","j","o","b","s"," ","t","o","d","a","y",".">> >>
    ELSE LET jobs      == _sort_by_recency(jobs0)
             formatted == [k \in 1..Len(jobs) |-> _format_job(jobs[k])]
             chunks    == _split_messages(formatted)
         IN [i \in 1..Len(chunks) |->
                message_prefix(cfg, Len(jobs), i, Len(chunks)) \o chunks[i]]

-----------------------------------------------------------------------------
(* The seen ledger *)

\* a database file in which seen_jobs was never created
NoDb == [created |-> FALSE, rows |-> {}]

\* the identities that have a row
LedgerIds(d) == {r.id : r \in d.rows}

\* sqlite3.connect + CREATE TABLE IF NOT EXISTS + commit: the table exists
\* afterwards and the rows it had are kept
_connect_recreate(d) == [created |-> TRUE, rows |-> {}]

_connect(d) == [created |-> TRUE, rows |-> d.rows]

\* SELECT id FROM seen_jobs WHERE id IN (ids)
select_ids(conn, ids) ==
    {row.id : row \in {r \in conn.rows : \E k \in 1..Len(ids) : ids[k] = r.id}}

\* filter_unseen(jobs): what it returns (ret) and the database after it (db)
filter_unseen_inverted(d, jobs) ==
    IF jobs = <<>> THEN [ret |-> <<>>, db |-> d]
    ELSE LET conn == _connect(d)
             ids  == [k \in 1..Len(jobs) |-> jobs[k].id]
             seen == select_ids(conn, ids)
             unseen(j) == j.id \in seen
         IN [ret |-> SelectSeq(jobs, unseen), db |-> conn]

filter_unseen(d, jobs) ==
    IF jobs = <<>> THEN [ret |-> <<>>, db |-> d]
    ELSE LET conn == _connect(d)
             ids  == [k \in 1..Len(jobs) |-> jobs[k].id]
             seen == select_ids(conn, ids)
             unseen(j) == j.id \notin seen
         IN [ret |-> SelectSeq(jobs, unseen), db |-> conn]

\* INSERT OR IGNORE of one row into a table whose PRIMARY KEY is id
insert_or_replace(rows, row) == {r \in rows : r.id # row.id} \cup {row}

insert_or_ignore(rows, row) ==
    IF \E r \in rows : r.id = row.id THEN rows ELSE rows \cup {row}

\* executemany: the rows are inserted one after the other
RECURSIVE executemany(_, _)
executemany(rows, params) ==
    IF params = <<>> THEN rows
    ELSE executemany(insert_or_ignore(rows, Head(params)), Tail(params))

\* mark_seen(jobs) at time now: the database after it
mark_seen_uncommitted(d, jobs, now) == IF jobs = <<>> THEN d ELSE _connect(d)

mark_seen(d, jobs, now) ==
    IF jobs = <<>> THEN d
    ELSE LET conn   == _connect(d)
             params == [k \in 1..Len(jobs) |->
                          [id |-> jobs[k].id, title |-> jobs[k].title,
                           url |-> jobs[k].url, seen_at |-> now]]
         IN [created |-> TRUE, rows |-> executemany(conn.rows, params)]

-----------------------------------------------------------------------------
(* The storage calls on their own: SpecLedger *)

\* length of the lists handed to the storage calls
MaxListLen == 2
\* values datetime.utcnow() takes
MaxClock == 2

LEDGER_POSTINGS == {P1, P5, P4}

SeqsUpTo(S, n) == UNION {[1..k -> S] : k \in 0..n}

OffFetch ==
    /\ fetchPc = "off"
    /\ board = 0
    /\ all_jobs = <<>>
    /\ seen_ids = {}
    /\ seen_title_company = {}
    /\ emitted = <<>>
    /\ keptIdx = {}

OffBot ==
    /\ lock = FALSE
    /\ pass = <<>>
    /\ sent = {}
    /\ delivered = <<>>

\* user_prefs.json does not exist
NoPrefs == [setup_done |-> FALSE, roles |-> <<>>, location_type |-> "",
            preferred_locations |-> <<>>]

OffLoop ==
    /\ _setup = <<>>
    /\ prefs = NoPrefs
    /\ offset = 0
    /\ update = <<>>

OffCall ==
    /\ call = "none"
    /\ input = <<>>
    /\ output = <<>>

OffStorage ==
    /\ op = "none"
    /\ arg = <<>>
    /\ ret = <<>>
    /\ pre = NoDb
    /\ marked = <<>>
    /\ again = FALSE

InitLedger ==
    /\ OffFetch
    /\ OffStorage
    /\ db = NoDb
    /\ clock = 1
    /\ env = DEFAULT_ENV
    /\ OffBot
    /\ OffLoop
    /\ OffCall

\* a caller runs filter_unseen(jobs)
LedgerFilterUnseen(jobs) ==
    /\ LET r == filter_unseen(db, jobs)
       IN /\ db' = r.db
          /\ ret' = r.ret
    /\ op' = "filter_unseen"
    /\ arg' = jobs
    /\ pre' = db
    /\ again' = FALSE
    /\ UNCHANGED <<marked, clock, env, fetchVars, botVars, callVars, loopVars>>

\* a caller runs mark_seen(jobs)
LedgerMarkSeen(jobs) ==
    /\ db' = mark_seen(db, jobs, clock)
    /\ ret' = <<>>
    /\ op' = "mark_seen"
    /\ arg' = jobs
    /\ pre' = db
    /\ marked' = jobs
    /\ again' = (op = "mark_seen" /\ arg = jobs)
    /\ UNCHANGED <<clock, env, fetchVars, botVars, callVars, loopVars>>

\* time passes
Tick ==
    /\ clock < MaxClock
    /\ clock' = clock + 1
    /\ UNCHANGED <<db, env, fetchVars, storageVars, botVars, callVars, loopVars>>

NextLedger ==
    \/ \E jobs \in SeqsUpTo(LEDGER_POSTINGS, MaxListLen) : LedgerFilterUnseen(jobs)
    \/ \E jobs \in SeqsUpTo(LEDGER_POSTINGS, MaxListLen) : LedgerMarkSeen(jobs)
    \/ Tick

SpecLedger == InitLedger /\ [][NextLedger]_vars

-----------------------------------------------------------------------------
(* fetch_all as a loop: SpecFetch *)

InitFetch ==
    /\ fetchPc = "loop"
    /\ board = 1
    /\ all_jobs = <<>>
    /\ seen_ids = {}
    /\ seen_title_company = {}
    /\ emitted = <<>>
    /\ keptIdx = {}
    /\ OffStorage
    /\ db = NoDb
    /\ clock = 1
    /\ env = DEFAULT_ENV
    /\ OffBot
    /\ OffLoop
    /\ OffCall

\* the loop body for the next job of the list BOARDS[board] returned
FetchLoopBody(job) ==
    /\ fetchPc = "loop"
    /\ board <= NumBoards
    /\ Len(emitted) < MaxRecords
    /\ LET acc == merge_one([all_jobs |-> all_jobs, seen_ids |-> seen_ids,
                             seen_title_company |-> seen_title_company], job)
       IN /\ all_jobs' = acc.all_jobs
          /\ seen_ids' = acc.seen_ids
          /\ seen_title_company' = acc.seen_title_company
          /\ keptIdx' = IF Len(acc.all_jobs) > Len(all_jobs)
                        THEN keptIdx \cup {Len(emitted) + 1} ELSE keptIdx
    /\ emitted' = Append(emitted, job)
    /\ UNCHANGED <<fetchPc, board, db, clock, env, storageVars, botVars, callVars, loopVars>>

\* the list of BOARDS[board] is exhausted: the outer loop advances
FetchNextBoard ==
    /\ fetchPc = "loop"
    /\ board <= NumBoards
    /\ board' = board + 1
    /\ UNCHANGED <<fetchPc, all_jobs, seen_ids, seen_title_company, emitted, keptIdx,
                   db, clock, env, storageVars, botVars, callVars, loopVars>>

\* return all_jobs
FetchReturn ==
    /\ fetchPc = "loop"
    /\ board > NumBoards
    /\ fetchPc' = "returned"
    /\ UNCHANGED <<board, all_jobs, seen_ids, seen_title_company, emitted, keptIdx,
                   db, clock, env, storageVars, botVars, callVars, loopVars>>

NextFetch ==
    \/ \E job \in POSTINGS : FetchLoopBody(job)
    \/ FetchNextBoard
    \/ FetchReturn

SpecFetch == InitFetch /\ [][NextFetch]_vars


-----------------------------------------------------------------------------
(* The bot process and the scraper runs: Spec *)

\* passes requested during a run: /jobs and /new commands, scheduled scrapes
\* and runs of scraper.py from the command line
MaxPasses == 2

ENVS == {DEFAULT_ENV}

IDS == {p.id : p \in POSTINGS}

\* datetime.utcnow() and datetime.now(timezone.utc), in seconds since the
\* epoch: the clock starts on 2026-02-19 and a tick is a day
utcnow == 1771459200 + 86400 * clock

\* a posting whose posted value parses to a naive datetime
P7 == [Job(T_GrowthLead, C_Acme, L_Remote, URL2, <<"B">>)
          EXCEPT !.posted = <<"T","h","u",","," ","1","9"," ","F","e","b"," ","2","0","2","6"," ","0","6",":","3","2",":","0","3">>]

\* what the adapters return to a pass: the first one P2 and the second one
\* P4, or the first one P1 and the second one P4, or the first one P7, the
\* others nothing
BOT_OUTPUTS ==
    {[b \in BOARDS |-> IF b = 1 THEN <<P2>> ELSE IF b = 2 THEN <<P4>> ELSE <<>>],
     [b \in BOARDS |-> IF b = 1 THEN <<P1>> ELSE IF b = 2 THEN <<P4>> ELSE <<>>],
     [b \in BOARDS |-> IF b = 1 THEN <<P7>> ELSE <<>>]}

\* what fetch_all() can return to a pass, and apply_filters of it
FETCHED == {fetch_all(outs) : outs \in BOT_OUTPUTS}
RAISES == [cfg \in ENVS |-> [raw \in FETCHED |-> apply_filters_raises(cfg, raw)]]
FILTERED ==
    [cfg \in ENVS |-> [k \in 1..MaxClock |-> [raw \in FETCHED |->
        IF RAISES[cfg][raw] THEN <<>>
        ELSE apply_filters(cfg, raw, 1771459200 + 86400 * k)]]]

\* scraper.main alerts when len(raw_jobs) is below this number
MIN_RAW_JOBS == 500

\* the raw postings of a scrape besides the ones written out: none, or so
\* many postings that no filter lets pass that the total is one below
\* MIN_RAW_JOBS or reaches it
BULK == {0, MIN_RAW_JOBS - 2}

\* the lists a pass can hand to send_jobs: a filtered list, or what
\* filter_unseen leaves of one; and send_jobs_chunks of each
RECURSIVE Subsequences(_)
Subsequences(q) ==
    IF q = <<>> THEN {<<>>}
    ELSE LET rest == Subsequences(Tail(q))
         IN rest \cup {<<Head(q)>> \o r : r \in rest}

SENDABLE ==
    UNION {Subsequences(FILTERED[cfg][k][raw]) :
              cfg \in ENVS, k \in 1..MaxClock, raw \in FETCHED}
CHUNKS == [jobs \in SENDABLE |-> send_jobs_chunks(jobs)]

PassIds == 1..MaxPasses

\* err: the call whose exception ended the pass; alert: the outcome of the
\* health alert; raw_count: len(raw_jobs) in scraper.main; prefs: history,
\* user_prefs.json when the pass was started
NoPass == [kind |-> "none", pc |-> "none", new_only |-> FALSE, dry_run |-> FALSE,
           jobs |-> <<>>, out |-> "", did |-> <<>>,
           err |-> "", alert |-> "none", raw_count |-> 0, prefs |-> NoPrefs]

Set(i, rec) == pass' = [pass EXCEPT ![i] = rec]

\* the identities sent by the first k messages of chunks
IdsOfFirst(chunks, k) == UNION {IdsOf(chunks[m]) : m \in 1..k}

Init ==
    /\ OffFetch
    /\ OffStorage
    /\ env \in ENVS
    /\ db = NoDb
    /\ clock = 1
    /\ lock = FALSE
    /\ pass = [i \in PassIds |-> NoPass]
    /\ sent = {}
    /\ delivered = [x \in IDS |-> 0]
    /\ OffCall
    /\ OffLoop

FreeSlot(i) == pass[i].kind = "none" /\ \A j \in 1..(i - 1) : pass[j].kind # "none"

\* Lock.acquire(blocking=False) on a lock that is held or not: whether the
\* caller now holds it
acquire_unchecked(held) == TRUE

acquire_nonblocking(held) == ~held

\* handle_command routes /jobs or /new to handle_jobs, which starts a thread
\* on _do_fetch_jobs
handle_jobs(i, new_only) ==
    /\ FreeSlot(i)
    /\ Set(i, [NoPass EXCEPT !.kind = IF new_only THEN "new" ELSE "jobs",
                             !.pc = "spawned", !.new_only = new_only,
                             !.prefs = prefs])
    /\ UNCHANGED <<env, fetchVars, db, clock, storageVars, lock, sent, delivered, callVars, loopVars>>

\* _do_fetch_jobs: the lock is taken, or the busy message is sent and the
\* thread returns
DoFetchAcquire(i) ==
    /\ pass[i].kind \in {"jobs", "new"}
    /\ pass[i].pc = "spawned"
    /\ IF acquire_nonblocking(lock)
       THEN /\ lock' = TRUE
            /\ Set(i, [pass[i] EXCEPT !.pc = "fetch"])
       ELSE /\ lock' = lock
            /\ Set(i, [pass[i] EXCEPT !.pc = "done", !.out = "busy"])
    /\ UNCHANGED <<env, fetchVars, db, clock, storageVars, sent, delivered, callVars, loopVars>>

\* what _do_fetch_jobs does after apply_filters: with new_only the two
\* ledger calls, otherwise the delivery at once
after_filters_always_ledger(new_only) == "unseen"

after_filters(new_only) == IF new_only THEN "unseen" ELSE "deliver"

\* raw = fetch_all(); jobs = apply_filters(raw), or apply_filters raises and
\* the except clause runs
DoFetchFetch(i) ==
    /\ pass[i].kind \in {"jobs", "new"}
    /\ pass[i].pc = "fetch"
    /\ \E raw \in FETCHED :
          IF RAISES[env][raw]
          THEN Set(i, [pass[i] EXCEPT !.did = Append(@, "fetch"),
                                      !.pc = "release", !.out = "error", !.err = "filter"])
          ELSE Set(i, [pass[i] EXCEPT !.jobs = FILTERED[env][clock][raw],
                                      !.did = Append(@, "fetch"),
                                      !.pc = after_filters(pass[i].new_only)])
    /\ UNCHANGED <<env, fetchVars, db, clock, storageVars, lock, sent, delivered, callVars, loopVars>>

\* filter_unseen inside a try that swallows the exception of sqlite3 and
\* keeps the list as it was
DoFetchUnseen_errors_swallowed(i) ==
    /\ pass[i].kind \in {"jobs", "new"}
    /\ pass[i].pc = "unseen"
    /\ \/ LET r == filter_unseen(db, pass[i].jobs)
          IN /\ db' = r.db
             /\ Set(i, [pass[i] EXCEPT !.jobs = r.ret,
                                       !.did = Append(@, "unseen"),
                                       !.pc = IF r.ret # <<>> THEN "mark" ELSE "deliver"])
       \/ /\ pass[i].jobs # <<>>
          /\ db' = db
          /\ Set(i, [pass[i] EXCEPT !.pc = "mark", !.err = "ledger"])
    /\ UNCHANGED <<env, fetchVars, clock, storageVars, lock, sent, delivered, callVars, loopVars>>

\* jobs = filter_unseen(jobs), or sqlite3 raises and the except clause runs;
\* the storage calls return at once on an empty list
DoFetchUnseen(i) ==
    /\ pass[i].kind \in {"jobs", "new"}
    /\ pass[i].pc = "unseen"
    /\ \/ LET r == filter_unseen(db, pass[i].jobs)
          IN /\ db' = r.db
             /\ Set(i, [pass[i] EXCEPT !.jobs = r.ret,
                                       !.did = Append(@, "unseen"),
                                       !.pc = IF r.ret # <<>> THEN "mark" ELSE "deliver"])
       \/ /\ pass[i].jobs # <<>>
          /\ db' = db
          /\ Set(i, [pass[i] EXCEPT !.pc = "release", !.out = "error", !.err = "ledger"])
    /\ UNCHANGED <<env, fetchVars, clock, storageVars, lock, sent, delivered, callVars, loopVars>>

\* mark_seen(jobs), or sqlite3 raises and the except clause runs
DoFetchMark(i) ==
    /\ pass[i].kind \in {"jobs", "new"}
    /\ pass[i].pc = "mark"
    /\ \/ /\ db' = mark_seen(db, pass[i].jobs, utcnow)
          /\ Set(i, [pass[i] EXCEPT !.did = Append(@, "mark"), !.pc = "deliver"])
       \/ /\ pass[i].jobs # <<>>
          /\ db' = db
          /\ Set(i, [pass[i] EXCEPT !.pc = "release", !.out = "error", !.err = "ledger"])
    /\ UNCHANGED <<env, fetchVars, clock, storageVars, lock, sent, delivered, callVars, loopVars>>

\* no jobs: the "No new jobs" message; otherwise the header and
\* send_jobs(jobs), whose k-th _send may raise after k - 1 messages went out
DoFetchDeliver(i) ==
    /\ pass[i].kind \in {"jobs", "new"}
    /\ pass[i].pc = "deliver"
    /\ IF pass[i].jobs = <<>>
       THEN /\ Set(i, [pass[i] EXCEPT !.pc = "release", !.out = "none_found"])
            /\ UNCHANGED <<sent, delivered>>
       ELSE LET chunks == CHUNKS[pass[i].jobs] IN
            \E k \in 0..Len(chunks) :
                /\ sent' = sent \cup IdsOfFirst(chunks, k)
                /\ delivered' =
                      [x \in IDS |-> IF pass[i].new_only /\ x \in IdsOfFirst(chunks, k)
                                     THEN delivered[x] + 1 ELSE delivered[x]]
                /\ Set(i, [pass[i] EXCEPT !.did = Append(@, "send"),
                                          !.pc = "release",
                                          !.out = IF k = Len(chunks) THEN "sent" ELSE "error",
                                          !.err = IF k = Len(chunks) THEN "" ELSE "send"])
    /\ UNCHANGED <<env, fetchVars, db, clock, storageVars, lock, callVars, loopVars>>

\* the release as the last statement of the try block instead of a finally
\* clause: an exception leaves the lock held
DoFetchRelease_not_finally(i) ==
    /\ pass[i].kind \in {"jobs", "new"}
    /\ pass[i].pc = "release"
    /\ lock' = (pass[i].out = "error")
    /\ Set(i, [pass[i] EXCEPT !.pc = "done"])
    /\ UNCHANGED <<env, fetchVars, db, clock, storageVars, sent, delivered, callVars, loopVars>>

\* finally: _fetch_lock.release()
DoFetchRelease(i) ==
    /\ pass[i].kind \in {"jobs", "new"}
    /\ pass[i].pc = "release"
    /\ lock' = FALSE
    /\ Set(i, [pass[i] EXCEPT !.pc = "done"])
    /\ UNCHANGED <<env, fetchVars, db, clock, storageVars, sent, delivered, callVars, loopVars>>

\* _run_scheduler calls _scheduled_scrape, which calls scraper.main(); the
\* scheduler thread runs one scrape at a time
ScheduledScrape(i) ==
    /\ FreeSlot(i)
    /\ \A j \in DOMAIN pass : pass[j].kind = "sched" => pass[j].pc = "done"
    /\ Set(i, [NoPass EXCEPT !.kind = "sched", !.pc = "fetch", !.prefs = prefs])
    /\ UNCHANGED <<env, fetchVars, db, clock, storageVars, lock, sent, delivered, callVars, loopVars>>

\* python scraper.py [--dry-run], a process of its own on the same database
RunScraper(i, dry_run) ==
    /\ FreeSlot(i)
    /\ Set(i, [NoPass EXCEPT !.kind = "cli", !.pc = "fetch", !.dry_run = dry_run,
                             !.prefs = prefs])
    /\ UNCHANGED <<env, fetchVars, db, clock, storageVars, lock, sent, delivered, callVars, loopVars>>

\* the health alert of scraper.main: _send inside try/except/pass, whose
\* request goes through (ok) or raises
health_alert_unguarded(dry_run, raw_count, ok) ==
    IF dry_run \/ raw_count >= MIN_RAW_JOBS THEN [alert |-> "none", raised |-> FALSE]
    ELSE IF ok THEN [alert |-> "sent", raised |-> FALSE]
    ELSE [alert |-> "failed", raised |-> TRUE]

health_alert(dry_run, raw_count, ok) ==
    IF dry_run \/ raw_count >= MIN_RAW_JOBS THEN [alert |-> "none", raised |-> FALSE]
    ELSE IF ok THEN [alert |-> "sent", raised |-> FALSE]
    ELSE [alert |-> "failed", raised |-> FALSE]

\* scraper.main: raw_jobs = fetch_all(); the health alert;
\* filtered = apply_filters(raw_jobs), or apply_filters raises
MainFetch(i) ==
    /\ pass[i].kind \in {"sched", "cli"}
    /\ pass[i].pc = "fetch"
    /\ \E raw \in FETCHED, bulk \in BULK, ok \in BOOLEAN :
          LET a == health_alert(pass[i].dry_run, Len(raw) + bulk, ok) IN
          IF a.raised
          THEN Set(i, [pass[i] EXCEPT !.did = Append(@, "fetch"),
                                      !.raw_count = Len(raw) + bulk,
                                      !.alert = a.alert,
                                      !.pc = "done", !.out = "error", !.err = "alert"])
          ELSE IF RAISES[env][raw]
          THEN Set(i, [pass[i] EXCEPT !.did = Append(@, "fetch"),
                                      !.raw_count = Len(raw) + bulk,
                                      !.alert = a.alert,
                                      !.pc = "done", !.out = "error", !.err = "filter"])
          ELSE Set(i, [pass[i] EXCEPT !.jobs = FILTERED[env][clock][raw],
                                      !.did = Append(@, "fetch"),
                                      !.raw_count = Len(raw) + bulk,
                                      !.alert = a.alert,
                                      !.pc = "unseen"])
    /\ UNCHANGED <<env, fetchVars, db, clock, storageVars, lock, sent, delivered, callVars, loopVars>>

\* scraper.main: new_jobs = filter_unseen(filtered), or sqlite3 raises; then
\* _save_companies(filtered), whose file write goes through or raises
MainUnseen(i) ==
    /\ pass[i].kind \in {"sched", "cli"}
    /\ pass[i].pc = "unseen"
    /\ \/ LET r == filter_unseen(db, pass[i].jobs)
          IN /\ db' = r.db
             /\ \/ Set(i, [pass[i] EXCEPT !.jobs = r.ret,
                                          !.did = Append(@, "unseen"),
                                          !.pc = IF pass[i].dry_run THEN "dry_mark" ELSE "send"])
                \/ Set(i, [pass[i] EXCEPT !.jobs = r.ret,
                                          !.did = Append(@, "unseen"),
                                          !.pc = "done", !.out = "error", !.err = "companies"])
       \/ /\ pass[i].jobs # <<>>
          /\ db' = db
          /\ Set(i, [pass[i] EXCEPT !.pc = "done", !.out = "error", !.err = "ledger"])
    /\ UNCHANGED <<env, fetchVars, clock, storageVars, lock, sent, delivered, callVars, loopVars>>

\* scraper.main under --dry-run: the preview is printed and mark_seen(new_jobs)
MainDryMark(i) ==
    /\ pass[i].kind \in {"sched", "cli"}
    /\ pass[i].pc = "dry_mark"
    /\ \/ /\ db' = mark_seen(db, pass[i].jobs, utcnow)
          /\ Set(i, [pass[i] EXCEPT !.did = Append(@, "mark"), !.pc = "done", !.out = "ok"])
       \/ /\ pass[i].jobs # <<>>
          /\ db' = db
          /\ Set(i, [pass[i] EXCEPT !.pc = "done", !.out = "error", !.err = "ledger"])
    /\ UNCHANGED <<env, fetchVars, clock, storageVars, lock, sent, delivered, callVars, loopVars>>

\* send_jobs inside a try that swallows the exception of _send
MainSend_errors_swallowed(i) ==
    /\ pass[i].kind \in {"sched", "cli"}
    /\ pass[i].pc = "send"
    /\ IF pass[i].jobs = <<>>
       THEN /\ \/ Set(i, [pass[i] EXCEPT !.did = Append(@, "send"), !.pc = "mark"])
               \/ /\ ~env.SILENT_IF_EMPTY
                  /\ Set(i, [pass[i] EXCEPT !.did = Append(@, "send"),
                                            !.pc = "mark", !.err = "send"])
            /\ UNCHANGED <<sent, delivered>>
       ELSE LET chunks == CHUNKS[pass[i].jobs] IN
            \E k \in 0..Len(chunks) :
                /\ sent' = sent \cup IdsOfFirst(chunks, k)
                /\ delivered' =
                      [x \in IDS |-> IF pass[i].kind = "sched" /\ x \in IdsOfFirst(chunks, k)
                                     THEN delivered[x] + 1 ELSE delivered[x]]
                /\ Set(i, IF k = Len(chunks)
                          THEN [pass[i] EXCEPT !.did = Append(@, "send"), !.pc = "mark"]
                          ELSE [pass[i] EXCEPT !.did = Append(@, "send"),
                                               !.pc = "mark", !.err = "send"])
    /\ UNCHANGED <<env, fetchVars, db, clock, storageVars, lock, callVars, loopVars>>

\* scraper.main: send_jobs(new_jobs); with no jobs one notice is sent unless
\* SILENT_IF_EMPTY; a _send that raises ends the run
MainSend(i) ==
    /\ pass[i].kind \in {"sched", "cli"}
    /\ pass[i].pc = "send"
    /\ IF pass[i].jobs = <<>>
       THEN /\ \/ Set(i, [pass[i] EXCEPT !.did = Append(@, "send"), !.pc = "mark"])
               \/ /\ ~env.SILENT_IF_EMPTY
                  /\ Set(i, [pass[i] EXCEPT !.did = Append(@, "send"),
                                            !.pc = "done", !.out = "error", !.err = "send"])
            /\ UNCHANGED <<sent, delivered>>
       ELSE LET chunks == CHUNKS[pass[i].jobs] IN
            \E k \in 0..Len(chunks) :
                /\ sent' = sent \cup IdsOfFirst(chunks, k)
                /\ delivered' =
                      [x \in IDS |-> IF pass[i].kind = "sched" /\ x \in IdsOfFirst(chunks, k)
                                     THEN delivered[x] + 1 ELSE delivered[x]]
                /\ Set(i, IF k = Len(chunks)
                          THEN [pass[i] EXCEPT !.did = Append(@, "send"), !.pc = "mark"]
                          ELSE [pass[i] EXCEPT !.did = Append(@, "send"),
                                               !.pc = "done", !.out = "error", !.err = "send"])
    /\ UNCHANGED <<env, fetchVars, db, clock, storageVars, lock, callVars, loopVars>>

\* scraper.main: mark_seen(new_jobs), or sqlite3 raises
MainMark(i) ==
    /\ pass[i].kind \in {"sched", "cli"}
    /\ pass[i].pc = "mark"
    /\ \/ /\ db' = mark_seen(db, pass[i].jobs, utcnow)
          /\ Set(i, [pass[i] EXCEPT !.did = Append(@, "mark"), !.pc = "done", !.out = "ok"])
       \/ /\ pass[i].jobs # <<>>
          /\ db' = db
          /\ Set(i, [pass[i] EXCEPT !.pc = "done", !.out = "error", !.err = "ledger"])
    /\ UNCHANGED <<env, fetchVars, clock, storageVars, lock, sent, delivered, callVars, loopVars>>

Next ==
    \/ \E i \in PassIds, new_only \in BOOLEAN : handle_jobs(i, new_only)
    \/ \E i \in PassIds : DoFetchAcquire(i)
    \/ \E i \in PassIds : DoFetchFetch(i)
    \/ \E i \in PassIds : DoFetchUnseen(i)
    \/ \E i \in PassIds : DoFetchMark(i)
    \/ \E i \in PassIds : DoFetchDeliver(i)
    \/ \E i \in PassIds : DoFetchRelease(i)
    \/ \E i \in PassIds : ScheduledScrape(i)
    \/ \E i \in PassIds, dry_run \in BOOLEAN : RunScraper(i, dry_run)
    \/ \E i \in PassIds : MainFetch(i)
    \/ \E i \in PassIds : MainUnseen(i)
    \/ \E i \in PassIds : MainDryMark(i)
    \/ \E i \in PassIds : MainSend(i)
    \/ \E i \in PassIds : MainMark(i)

Spec == Init /\ [][Next]_vars

-----------------------------------------------------------------------------
(* fetch_all followed by apply_filters: SpecPipeline *)

\* the source names of the first adapters of BOARDS
SOURCES == << <<"A">>, <<"B">>, <<"C">> >>

\* what adapter b can return: any list without repeats of the postings that
\* carry its source name
PostingsOf(b) == {p \in POSTINGS : b <= Len(SOURCES) /\ p.source = SOURCES[b]}
ListsOf(S) ==
    {q \in SeqsUpTo(S, Cardinality(S)) : \A i, j \in 1..Len(q) : i # j => q[i] # q[j]}
ADAPTER_RETURNS ==
    {outs \in [BOARDS -> UNION {ListsOf(PostingsOf(b)) : b \in BOARDS}] :
        \A b \in BOARDS : outs[b] \in ListsOf(PostingsOf(b))}

ENGINEERING_ANY_ENV ==
    [JOB_ROLES |-> << <<"e","n","g","i","n","e","e","r","i","n","g">> >>,
     LOCATION_TYPE |-> "any",
     PREFERRED_LOCATIONS |-> <<>>,
     SILENT_IF_EMPTY |-> TRUE]

InitPipeline ==
    /\ OffFetch
    /\ OffStorage
    /\ OffBot
    /\ OffLoop
    /\ db = NoDb
    /\ clock = 1
    /\ env \in {DEFAULT_ENV, ENGINEERING_ANY_ENV}
    /\ call = "none"
    /\ input \in ADAPTER_RETURNS
    /\ output = <<>>

\* raw = fetch_all()
PipelineFetchAll ==
    /\ call = "none"
    /\ call' = "fetch_all"
    /\ output' = [raw |-> fetch_all(input)]
    /\ UNCHANGED <<env, fetchVars, db, clock, storageVars, botVars, input, loopVars>>

\* jobs = apply_filters(raw)
PipelineApplyFilters ==
    /\ call = "fetch_all"
    /\ call' = "apply_filters"
    /\ output' = [raw |-> output.raw, filtered |-> apply_filters(env, output.raw, utcnow)]
    /\ UNCHANGED <<env, fetchVars, db, clock, storageVars, botVars, input, loopVars>>

NextPipeline ==
    \/ PipelineFetchAll
    \/ PipelineApplyFilters

SpecPipeline == InitPipeline /\ [][NextPipeline]_vars

-----------------------------------------------------------------------------
(* The adapters (boards.py) *)

\* JSON null, or an HTML sub-element that is missing
NULL == <<"null">>

\* a remote document as an adapter's request finds it: the request raises
\* ("error": network error, timeout, unparsable payload), answers with a
\* non-success status ("bad_status"), or yields the document's items
Doc(status, items) == [status |-> status, items |-> items]

\* parsing that builds a record from every item with text fields, whatever
\* its url
parse_item_any_url(adapter, item, entry) ==
    IF item.title = NULL \/ item.company = NULL \/ item.location = NULL
    THEN [act |-> "skip"]
    ELSE [act |-> "job",
          job |-> Job(strip(item.title), strip(item.company), item.location,
                      item.url, <<"r","e","m","o","t","e","o","k",".","c","o","m">>)]

\* one item of a document against the parsing code of an adapter: "skip" for
\* `continue`, "raise" for an exception, or the Job built
parse_item(adapter, item, entry) ==
    CASE adapter = "fetch_remoteok" ->
            IF item.title = NULL \/ item.title = <<>> THEN [act |-> "skip"]
            ELSE IF item.url = <<>> THEN [act |-> "skip"]
            ELSE IF item.company = NULL THEN [act |-> "raise"]
            ELSE [act |-> "job",
                  job |-> Job(html_unescape(strip(item.title)),
                              html_unescape(strip(item.company)),
                              IF item.location \in {NULL, <<>>} THEN L_Remote
                              ELSE item.location,
                              item.url, <<"r","e","m","o","t","e","o","k",".","c","o","m">>)]
      [] adapter = "fetch_greenhouse" ->
            IF item.url = <<>> THEN [act |-> "skip"]
            ELSE IF item.title = NULL \/ item.location = NULL THEN [act |-> "raise"]
            ELSE [act |-> "job",
                  job |-> Job(html_unescape(strip(item.title)), entry.name,
                              item.location, item.url,
                              <<"g","r","e","e","n","h","o","u","s","e","/">> \o entry.slug)]
      [] adapter = "fetch_web3career" ->
            LET title   == IF item.title = NULL THEN <<>> ELSE strip(item.title)
                company == IF item.company = NULL THEN <<>> ELSE strip(item.company)
            IN IF item.url = <<>> THEN [act |-> "skip"]
               ELSE IF title = <<>> THEN [act |-> "skip"]
               ELSE [act |-> "job",
                     job |-> Job(title, company,
                                 IF item.location = NULL THEN <<>> ELSE item.location,
                                 <<"h","t","t","p","s",":","/","/","w","e","b","3",".","c","a","r","e","e","r">> \o item.url, <<"w","e","b","3",".","c","a","r","e","e","r">>)]

\* the loop over a document's items, appending to jobs until an item raises
RECURSIVE items_loop(_, _, _, _)
items_loop(adapter, items, entry, jobs) ==
    IF items = <<>> THEN [raised |-> FALSE, jobs |-> jobs]
    ELSE LET r == parse_item(adapter, Head(items), entry) IN
         IF r.act = "raise" THEN [raised |-> TRUE, jobs |-> jobs]
         ELSE items_loop(adapter, Tail(items), entry,
                         IF r.act = "job" THEN Append(jobs, r.job) ELSE jobs)

\* an adapter returns its list, unless an exception leaves it
Returned(jobs) == [raised |-> FALSE, jobs |-> jobs]

\* fetch_remoteok without its try/except
fetch_remoteok_unguarded(doc) ==
    IF doc.status # "ok" THEN [raised |-> TRUE, jobs |-> <<>>]
    ELSE items_loop("fetch_remoteok", doc.items, <<>>, <<>>)

\* fetch_remoteok: one request, the whole body inside try/except
fetch_remoteok(doc) ==
    IF doc.status # "ok" THEN Returned(<<>>)
    ELSE LET r == items_loop("fetch_remoteok", doc.items, <<>>, <<>>) IN
         IF r.raised THEN Returned(<<>>) ELSE Returned(r.jobs)

\* _scrape_web3career_page: raises on a failed request
_scrape_web3career_page(doc) ==
    IF doc.status # "ok" THEN [raised |-> TRUE, jobs |-> <<>>]
    ELSE items_loop("fetch_web3career", doc.items, <<>>, <<>>)

\* the jobs of a page whose id is not yet in all_jobs, in order
RECURSIVE extend_unseen(_, _)
extend_unseen(all, jobs) ==
    IF jobs = <<>> THEN all
    ELSE extend_unseen(IF Head(jobs).id \in IdsOf(all) THEN all ELSE Append(all, Head(jobs)),
                       Tail(jobs))

\* fetch_web3career that stops at the first page that fails
RECURSIVE web3career_abort(_, _)
web3career_abort(docs, all) ==
    IF docs = <<>> THEN Returned(all)
    ELSE LET page == _scrape_web3career_page(Head(docs)) IN
         IF page.raised THEN Returned(all)
         ELSE web3career_abort(Tail(docs), extend_unseen(all, page.jobs))

fetch_web3career_abort(docs) == web3career_abort(docs, <<>>)

\* fetch_web3career: docs[k] answers the request for paths[k]; try/except
\* around each page
RECURSIVE web3career_pages(_, _)
web3career_pages(docs, all) ==
    IF docs = <<>> THEN Returned(all)
    ELSE LET page == _scrape_web3career_page(Head(docs)) IN
         web3career_pages(Tail(docs),
                          IF page.raised THEN all ELSE extend_unseen(all, page.jobs))

fetch_web3career(docs) == web3career_pages(docs, <<>>)

\* the registry entries modelled: the first two of GREENHOUSE_COMPANIES
GREENHOUSE_COMPANIES ==
    << [slug |-> <<"c","o","i","n","b","a","s","e">>,  name |-> <<"C","o","i","n","b","a","s","e">>],
       [slug |-> <<"c","o","n","s","e","n","s","y","s">>, name |-> <<"C","o","n","s","e","n","s","y","s">>] >>

\* fetch_greenhouse: docs[k] answers the request for entry k; try/except
\* around each entry, records appended to all_jobs as they are parsed
RECURSIVE greenhouse_entries(_, _, _)
greenhouse_entries(docs, k, all) ==
    IF k > Len(docs) THEN Returned(all)
    ELSE IF docs[k].status # "ok" THEN greenhouse_entries(docs, k + 1, all)
    ELSE greenhouse_entries(docs, k + 1,
            items_loop("fetch_greenhouse", docs[k].items,
                       GREENHOUSE_COMPANIES[k], all).jobs)

fetch_greenhouse(docs) == greenhouse_entries(docs, 1, <<>>)

\* BOARDS restricted to one adapter of each shape, in their declared order:
\* fetch_web3career, fetch_greenhouse, and single-request adapters of the
\* shape of fetch_remoteok after them; board b is given the documents docs
board_fn(b, docs) ==
    IF b = 1 THEN fetch_web3career(docs)
    ELSE IF b = 2 THEN fetch_greenhouse(docs)
    ELSE fetch_remoteok(docs[1])

-----------------------------------------------------------------------------
(* The adapters against what their sources serve: SpecAdapters *)

MaxItems == 2

\* items served: two well-formed ones, one without url, and one with null
\* company and location
I_GrowthLead == [url |-> URL1, title |-> T_GrowthLead, company |-> C_Acme, location |-> L_Remote]
I_Backend    == [url |-> URL3, title |-> T_BackendEngineer, company |-> C_acme, location |-> <<>>]
I_NoUrl      == [url |-> <<>>, title |-> T_GrowthLead, company |-> C_Acme, location |-> L_Remote]
I_Null       == [url |-> URL4, title |-> T_RnD_escaped, company |-> NULL, location |-> NULL]
ITEMS == {I_GrowthLead, I_Backend, I_NoUrl, I_Null}

DOCS ==
    {Doc("error", <<>>), Doc("bad_status", <<>>)}
        \cup {Doc("ok", items) : items \in SeqsUpTo(ITEMS, MaxItems)}

\* what the requests of one adapter find, one document for each request
WORLDS == [1..Len(GREENHOUSE_COMPANIES) -> DOCS]

\* what the boards find when fetch_all calls them, one request each
BOARD_DOCS ==
    {Doc("error", <<>>), Doc("bad_status", <<>>),
     Doc("ok", <<I_GrowthLead>>), Doc("ok", <<I_Backend, I_Null>>)}
BOARD_WORLDS == [BOARDS -> {<<d>> : d \in BOARD_DOCS}]

InitAdapters ==
    /\ OffFetch /\ OffStorage /\ OffBot
    /\ OffLoop
    /\ db = NoDb /\ clock = 1 /\ env = DEFAULT_ENV
    /\ call = "none"
    /\ input \in {[docs |-> w, boards |-> <<>>] : w \in WORLDS}
                    \cup {[docs |-> <<>>, boards |-> w] : w \in BOARD_WORLDS}
    /\ output = <<>>

CallRemoteok ==
    /\ call = "none" /\ input.docs # <<>>
    /\ call' = "fetch_remoteok"
    /\ output' = fetch_remoteok(input.docs[1])
    /\ UNCHANGED <<env, fetchVars, db, clock, storageVars, botVars, input, loopVars>>

CallWeb3career ==
    /\ call = "none" /\ input.docs # <<>>
    /\ call' = "fetch_web3career"
    /\ output' = fetch_web3career(input.docs)
    /\ UNCHANGED <<env, fetchVars, db, clock, storageVars, botVars, input, loopVars>>

CallGreenhouse ==
    /\ call = "none" /\ input.docs # <<>>
    /\ call' = "fetch_greenhouse"
    /\ output' = fetch_greenhouse(input.docs)
    /\ UNCHANGED <<env, fetchVars, db, clock, storageVars, botVars, input, loopVars>>

\* fetch_all calls board_fn() with no try/except of its own
CallFetchAll ==
    /\ call = "none" /\ input.boards # <<>>
    /\ call' = "fetch_all"
    /\ LET rs     == [b \in BOARDS |-> board_fn(b, input.boards[b])]
           raised == \E b \in BOARDS : rs[b].raised
           outs   == [b \in BOARDS |-> rs[b].jobs]
       IN output' = [raised |-> raised, outs |-> outs,
                     raw |-> IF raised THEN <<>> ELSE fetch_all(outs)]
    /\ UNCHANGED <<env, fetchVars, db, clock, storageVars, botVars, input, loopVars>>

NextAdapters == CallRemoteok \/ CallWeb3career \/ CallGreenhouse \/ CallFetchAll

SpecAdapters == InitAdapters /\ [][NextAdapters]_vars

-----------------------------------------------------------------------------
(* The filters against configurations and postings: SpecFilters *)

\* configurations: JOB_ROLES marketing, data or both; LOCATION_TYPE remote,
\* specific with PREFERRED_LOCATIONS austin, or any
FILTER_ENVS ==
    {[JOB_ROLES |-> roles, LOCATION_TYPE |-> loc[1], PREFERRED_LOCATIONS |-> loc[2],
      SILENT_IF_EMPTY |-> TRUE] :
        roles \in {<<<<"m","a","r","k","e","t","i","n","g">>>>, <<<<"d","a","t","a">>>>, <<<<"m","a","r","k","e","t","i","n","g">>, <<"d","a","t","a">>>>},
        loc \in {<<"remote", <<>>>>, <<"specific", <<<<"a","u","s","t","i","n">>>>>>, <<"any", <<>>>>}}

Posting(title, location, posted, url) ==
    [Job(title, C_Acme, location, url, <<"A">>) EXCEPT !.posted = posted]

FILTER_JOBS ==
    {Posting(<<"S","e","n","i","o","r"," ","P","r","o","d","u","c","t"," ","M","a","r","k","e","t","i","n","g"," ","M","a","n","a","g","e","r">>, <<"W","o","r","l","d","w","i","d","e">>, <<>>, URL1),
     Posting(<<"B","a","c","k","e","n","d"," ","S","o","f","t","w","a","r","e"," ","E","n","g","i","n","e","e","r">>, <<"R","e","m","o","t","e">>, <<"2","0","2","6","-","0","2","-","1","0">>, URL2),
     Posting(<<"C","o","m","m","u","n","i","t","y"," ","M","a","n","a","g","e","r">>, <<"R","e","m","o","t","e"," ","-"," ","U","S","A">>, <<>>, URL3),
     Posting(<<"G","r","o","w","t","h"," ","L","e","a","d">>, <<>>, <<"2","0","2","5","-","1","2","-","0","1">>, URL4),
     Posting(<<"D","a","t","a"," ","A","n","a","l","y","s","t">>, <<"A","u","s","t","i","n"," ","(","R","e","m","o","t","e",")">>, <<"2","0","2","6","-","0","2","-","1","0">>, URL1),
     Posting(<<"G","r","o","w","t","h"," ","L","e","a","d">>, <<"A","u","s","t","i","n",","," ","T","X">>, <<"n","o","t"," ","a"," ","d","a","t","e">>, URL2),
     Posting(<<"M","a","r","k","e","t","i","n","g"," ","M","a","n","a","g","e","r">>, <<"R","e","m","o","t","e"," ","o","r"," ","O","n","-","s","i","t","e">>, <<>>, URL3),
     Posting(<<"H","e","a","d"," ","o","f"," ","D","a","t","a">>, <<"B","e","r","l","i","n">>, <<>>, URL4)}

\* posted values around the cutoff, for the current time 2026-02-20 00:00:00 UTC
POSTED_TEXTS ==
    {<<>>,
     <<"T","B","D">>,
     <<"2","0","2","6","-","0","1","-","0","6">>,
     <<"2","0","2","6","-","0","1","-","0","5","T","2","3",":","5","9",":","5","9">>,
     <<"2","0","2","6","-","0","1","-","0","1">>,
     <<"1","7","6","7","2","2","5","6","0","0">>,
     <<"1","7","6","7","2","2","5","6","0","0","0","0","0">>,
     <<"T","h","u",","," ","0","1"," ","J","a","n"," ","2","0","2","6"," ","0","6",":","3","2",":","0","3"," ","G","M","T">>,
     <<"T","h","u",","," ","1","9"," ","F","e","b"," ","2","0","2","6"," ","0","6",":","3","2",":","0","3">>,
     <<"T","h","u",","," ","1","9"," ","F","e","b"," ","2","0","2","6"," ","0","6",":","3","2",":","0","3"," ","-","0","0","0","0">>}

AGE_JOBS == {Posting(<<"G","r","o","w","t","h"," ","L","e","a","d">>, <<>>, posted, URL1) : posted \in POSTED_TEXTS}

InitFilters ==
    /\ OffFetch /\ OffStorage /\ OffBot
    /\ OffLoop
    /\ db = NoDb /\ clock = 1
    /\ env \in FILTER_ENVS
    /\ call = "none"
    /\ input \in SeqsUpTo(FILTER_JOBS, MaxListLen) \cup {<<job>> : job \in AGE_JOBS}
    /\ output = <<>>

CallApplyFilters ==
    /\ call = "none"
    /\ call' = "apply_filters"
    /\ output' = IF apply_filters_raises(env, input)
                 THEN [raised |-> TRUE, result |-> <<>>]
                 ELSE [raised |-> FALSE, result |-> apply_filters(env, input, utcnow)]
    /\ UNCHANGED <<env, fetchVars, db, clock, storageVars, botVars, input, loopVars>>

CallMatchesInclude ==
    /\ call = "none" /\ input # <<>>
    /\ call' = "_matches_include"
    /\ output' = [verdict |-> _matches_include(env, input[1].title)]
    /\ UNCHANGED <<env, fetchVars, db, clock, storageVars, botVars, input, loopVars>>

CallIsExcludedTitle ==
    /\ call = "none" /\ input # <<>>
    /\ call' = "_is_excluded_title"
    /\ output' = [verdict |-> _is_excluded_title(env, input[1].title)]
    /\ UNCHANGED <<env, fetchVars, db, clock, storageVars, botVars, input, loopVars>>

CallIsLocationAllowed ==
    /\ call = "none" /\ input # <<>>
    /\ call' = "_is_location_allowed"
    /\ output' = [verdict |-> _is_location_allowed(env, input[1])]
    /\ UNCHANGED <<env, fetchVars, db, clock, storageVars, botVars, input, loopVars>>

NextFilters ==
    \/ CallApplyFilters
    \/ CallMatchesInclude
    \/ CallIsExcludedTitle
    \/ CallIsLocationAllowed

SpecFilters == InitFilters /\ [][NextFilters]_vars

-----------------------------------------------------------------------------
(* send_jobs called on its own: SpecNotifier *)

NOTIFY_ENVS ==
    {DEFAULT_ENV,
     [DEFAULT_ENV EXCEPT !.JOB_ROLES = <<<<"m","a","r","k","e","t","i","n","g">>, <<"e","n","g","i","n","e","e","r","i","n","g">>, <<"d","a","t","a">>>>,
                         !.SILENT_IF_EMPTY = FALSE]}

\* a text of n characters
Filled(n) == [i \in 1..n |-> "x"]

\* postings with the same short title and different dates, and postings
\* whose title has 2040, 4000 and 5000 characters
NOTIFY_JOBS ==
    {Posting(T_GrowthLead, <<>>, <<"2","0","2","6","-","0","1","-","0","6">>, URL1),
     Posting(T_GrowthLead, L_Remote, <<"1","7","6","7","2","2","5","6","0","0">>, URL2),
     Posting(T_GrowthLead, <<>>, <<>>, URL3),
     Posting(Filled(2040), <<>>, <<>>, URL4),
     Posting(Filled(4000), <<>>, <<"2","0","2","6","-","0","1","-","0","6">>, URL1),
     Posting(Filled(5000), <<>>, <<>>, URL2)}

\* a list of 33 postings with a title of 75 characters that differ in their
\* url
MANY_JOBS ==
    [k \in 1..33 |->
        Posting(T_GrowthLead \o Filled(64), <<>>, <<>>, URL1 \o decimal(9 + k))]

InitNotifier ==
    /\ OffFetch /\ OffStorage /\ OffBot
    /\ OffLoop
    /\ db = NoDb /\ clock = 1
    /\ env \in NOTIFY_ENVS
    /\ call = "none"
    /\ input \in SeqsUpTo(NOTIFY_JOBS, MaxListLen) \cup {MANY_JOBS}
    /\ output = <<>>

CallSendJobs ==
    /\ call = "none"
    /\ call' = "send_jobs"
    /\ output' = [messages |-> send_jobs(env, input)]
    /\ UNCHANGED <<env, fetchVars, db, clock, storageVars, botVars, input, loopVars>>

CallSplitMessages ==
    /\ call = "none"
    /\ call' = "_split_messages"
    /\ output' = [messages |-> _split_messages([k \in 1..Len(input) |-> _format_job(input[k])])]
    /\ UNCHANGED <<env, fetchVars, db, clock, storageVars, botVars, input, loopVars>>

NextNotifier ==
    \/ CallSendJobs
    \/ CallSplitMessages

SpecNotifier == InitNotifier /\ [][NextNotifier]_vars

-----------------------------------------------------------------------------
(* The polling loop and the setup flow (bot.py main, prefs.py): SpecLoop *)

\* prefs.save: what user_prefs.json holds afterwards
save(roles, location_type, preferred_locations) ==
    [setup_done |-> TRUE, roles |-> roles, location_type |-> location_type,
     preferred_locations |-> preferred_locations]

\* a user without an entry in _setup
NoState == [step |-> "none", roles |-> <<>>]

\* _setup[user_id] = {"step": "roles", "roles": [], ...}
start_setup(setup, user_id) ==
    [setup EXCEPT ![user_id] = [step |-> "roles", roles |-> <<>>]]

\* prefs.save(...) and _setup.pop(user_id)
_finish_setup(setup, user_id, roles, location_type, cities) ==
    [setup |-> [setup EXCEPT ![user_id] = NoState],
     prefs |-> save(roles, location_type, cities)]

\* list.remove(role) of a role that is in the list, list.append(role) otherwise
toggle(roles, role) ==
    IF role \in Elems(roles)
    THEN LET k == CHOOSE i \in 1..Len(roles) :
                      roles[i] = role /\ \A j \in 1..(i - 1) : roles[j] # role
         IN SubSeq(roles, 1, k - 1) \o SubSeq(roles, k + 1, Len(roles))
    ELSE Append(roles, role)

\* the branch of handle_callback for "roles_done" without the test of the
\* role list
roles_done_unchecked(state) == [state EXCEPT !.step = "location"]

\* the branch of handle_callback for "roles_done"
roles_done(state) ==
    IF state.roles = <<>> THEN state ELSE [state EXCEPT !.step = "location"]

\* handle_callback: _setup and user_prefs.json afterwards
handle_callback(setup, saved, user_id, data) ==
    LET state == setup[user_id] IN
    IF state.step = "none" THEN [setup |-> setup, prefs |-> saved]
    ELSE IF state.step = "roles"
    THEN IF StartsWith(data, <<"r","o","l","e","_">>)
         THEN [setup |-> [setup EXCEPT ![user_id].roles =
                              toggle(@, SubSeq(data, 6, Len(data)))],
               prefs |-> saved]
         ELSE IF data = <<"r","o","l","e","s","_","d","o","n","e">>
         THEN [setup |-> [setup EXCEPT ![user_id] = roles_done(state)], prefs |-> saved]
         ELSE [setup |-> setup, prefs |-> saved]
    ELSE IF state.step = "location"
    THEN IF data = <<"l","o","c","_","r","e","m","o","t","e">>
         THEN _finish_setup(setup, user_id, state.roles, "remote", <<>>)
         ELSE IF data = <<"l","o","c","_","a","n","y">>
         THEN _finish_setup(setup, user_id, state.roles, "any", <<>>)
         ELSE IF data = <<"l","o","c","_","s","p","e","c","i","f","i","c">>
         THEN [setup |-> [setup EXCEPT ![user_id].step = "cities"], prefs |-> saved]
         ELSE [setup |-> setup, prefs |-> saved]
    ELSE [setup |-> setup, prefs |-> saved]

\* text.split(",")
RECURSIVE split_comma(_)
split_comma(text) ==
    IF \E i \in 1..Len(text) : text[i] = ","
    THEN LET k == CHOOSE i \in 1..Len(text) :
                      text[i] = "," /\ \A j \in 1..(i - 1) : text[j] # ","
         IN <<SubSeq(text, 1, k - 1)>> \o split_comma(SubSeq(text, k + 1, Len(text)))
    ELSE <<text>>

\* [c.strip().lower() for c in text.split(",") if c.strip()]
parse_cities(text) ==
    LET parts == SelectSeq(split_comma(text), LAMBDA c : strip(c) # <<>>)
    IN [k \in 1..Len(parts) |-> lower(strip(parts[k]))]

\* handle_city_input's test of the city list
cities_read(cities) == cities # <<>>

\* handle_city_input: _setup and user_prefs.json afterwards
handle_city_input(setup, saved, user_id, text) ==
    LET state  == setup[user_id]
        cities == parse_cities(text)
    IN IF state.step # "cities" THEN [setup |-> setup, prefs |-> saved]
       ELSE IF ~cities_read(cities) THEN [setup |-> setup, prefs |-> saved]
       ELSE _finish_setup(setup, user_id, state.roles, "specific", cities)

\* text.strip().lower().split()[0]
command_of(text) ==
    LET t == lower(strip(text))
        ends == {i \in 1..Len(t) : IsSpace(t[i])}
    IN IF ends = {} THEN t
       ELSE SubSeq(t, 1, (CHOOSE i \in ends : \A j \in ends : i <= j) - 1)

\* config.TELEGRAM_CHAT_ID, and the users updates come from: the configured
\* chat is the private chat of user 1, and user 2 writes in chat 2
TELEGRAM_CHAT_ID == "1"
USERS == {"1", "2"}

\* the number of passes the loop starts
MaxLoopPasses == 1

\* the number of updates the loop handles
MaxUpdates == 5

\* STALE_CMD_SECS: a command older than this many seconds is ignored
STALE_CMD_SECS == 60

\* what getUpdates can deliver: button presses and text messages; age is
\* time.time() - msg_date of a message. From the configured chat come every
\* button, the commands, two of them also stale, and two city lists; from
\* another chat a button, a command and a city list
UPDATES ==
    {[kind |-> "callback_query", chat |-> "1", user |-> "1", text |-> d, age |-> 0] :
        d \in {<<"r","o","l","e","_","m","a","r","k","e","t","i","n","g">>, <<"r","o","l","e","_","d","a","t","a">>, <<"r","o","l","e","s","_","d","o","n","e">>,
               <<"l","o","c","_","r","e","m","o","t","e">>, <<"l","o","c","_","a","n","y">>, <<"l","o","c","_","s","p","e","c","i","f","i","c">>}}
    \cup
    {[kind |-> "message", chat |-> "1", user |-> "1", text |-> t, age |-> 0] :
        t \in {<<"/","s","t","a","r","t">>, <<"/","s","e","t","t","i","n","g","s">>, <<"/","j","o","b","s">>, <<"/","n","e","w">>, <<"/","h","e","l","p">>,
               <<"D","u","b","a","i",","," ","L","o","n","d","o","n">>, <<" ",","," ">>}}
    \cup
    {[kind |-> "message", chat |-> "1", user |-> "1", text |-> t, age |-> STALE_CMD_SECS + 1] :
        t \in {<<"/","s","t","a","r","t">>, <<"/","j","o","b","s">>}}
    \cup
    {[kind |-> "callback_query", chat |-> "2", user |-> "2", text |-> <<"r","o","l","e","_","d","a","t","a">>, age |-> 0],
     [kind |-> "message", chat |-> "2", user |-> "2", text |-> <<"/","j","o","b","s">>, age |-> 0],
     [kind |-> "message", chat |-> "2", user |-> "2", text |-> <<"D","u","b","a","i",","," ","L","o","n","d","o","n">>, age |-> 0]}

\* main's test of the chat an update comes from, left out
from_configured_chat_unchecked(chat_id) == TRUE

\* main's test of the chat an update comes from
from_configured_chat(chat_id) == chat_id = TELEGRAM_CHAT_ID

InitLoop ==
    /\ OffFetch
    /\ OffStorage
    /\ env \in ENVS
    /\ db = NoDb
    /\ clock = 1
    /\ lock = FALSE
    /\ pass = [i \in 1..MaxLoopPasses |-> NoPass]
    /\ sent = {}
    /\ delivered = [x \in IDS |-> 0]
    /\ OffCall
    /\ _setup = [u \in USERS |-> NoState]
    /\ prefs = NoPrefs
    /\ offset = 0
    /\ update = <<>>

\* one round of main's for loop: offset = update_id + 1, then the update is
\* dropped or handed to handle_callback, handle_command or handle_city_input;
\* /jobs and /new start a thread on _do_fetch_jobs
PollUpdate(u, update_id) ==
    /\ update_id = offset
    /\ update_id < MaxUpdates
    /\ offset' = update_id + 1
    /\ update' = [update_id |-> update_id, chat |-> u.chat,
                  kind |-> IF u.kind = "callback_query" THEN "button"
                           ELSE IF StartsWith(u.text, <<"/">>) THEN "command"
                           ELSE "text"]
    /\ IF ~from_configured_chat(u.chat)
       THEN UNCHANGED <<_setup, prefs, pass>>
       ELSE IF u.kind = "callback_query"
       THEN LET r == handle_callback(_setup, prefs, u.user, u.text) IN
            /\ _setup' = r.setup
            /\ prefs' = r.prefs
            /\ pass' = pass
       ELSE IF StartsWith(u.text, <<"/">>)
       THEN IF u.age > STALE_CMD_SECS
            THEN UNCHANGED <<_setup, prefs, pass>>
            ELSE LET cmd == command_of(u.text) IN
                 IF cmd \in {<<"/","s","t","a","r","t">>, <<"/","s","e","t","t","i","n","g","s">>}
                 THEN /\ _setup' = start_setup(_setup, u.user)
                      /\ UNCHANGED <<prefs, pass>>
                 ELSE IF cmd \in {<<"/","j","o","b","s">>, <<"/","n","e","w">>}
                 THEN /\ \E i \in DOMAIN pass :
                            /\ FreeSlot(i)
                            /\ Set(i, [NoPass EXCEPT
                                          !.kind = IF cmd = <<"/","n","e","w">> THEN "new" ELSE "jobs",
                                          !.pc = "spawned", !.new_only = (cmd = <<"/","n","e","w">>),
                                          !.prefs = prefs])
                      /\ UNCHANGED <<_setup, prefs>>
                 ELSE UNCHANGED <<_setup, prefs, pass>>
       ELSE LET r == handle_city_input(_setup, prefs, u.user, u.text) IN
            /\ _setup' = r.setup
            /\ prefs' = r.prefs
            /\ pass' = pass
    /\ UNCHANGED <<env, fetchVars, db, clock, storageVars, lock, sent, delivered, callVars>>

NextLoop ==
    \/ \E u \in UPDATES : PollUpdate(u, offset)
    \/ \E i \in DOMAIN pass : DoFetchAcquire(i)
    \/ \E i \in DOMAIN pass : DoFetchFetch(i)
    \/ \E i \in DOMAIN pass : DoFetchUnseen(i)
    \/ \E i \in DOMAIN pass : DoFetchMark(i)
    \/ \E i \in DOMAIN pass : DoFetchDeliver(i)
    \/ \E i \in DOMAIN pass : DoFetchRelease(i)
    \/ \E i \in DOMAIN pass : ScheduledScrape(i)
    \/ \E i \in DOMAIN pass : MainFetch(i)
    \/ \E i \in DOMAIN pass : MainUnseen(i)
    \/ \E i \in DOMAIN pass : MainSend(i)
    \/ \E i \in DOMAIN pass : MainMark(i)

SpecLoop == InitLoop /\ [][NextLoop]_vars

-----------------------------------------------------------------------------
(* Claims about the passes, checked under Spec *)

\* pass i is a command pass between its acquire and its release
HoldsLock(i) ==
    /\ pass[i].kind \in {"jobs", "new"}
    /\ pass[i].pc \in {"fetch", "unseen", "mark", "deliver", "release"}

\* pass i is a scheduled scrape inside scraper.main()
Scraping(i) ==
    /\ pass[i].kind = "sched"
    /\ pass[i].pc \in {"fetch", "unseen", "dry_mark", "send", "mark"}

\* C1: at any moment at most one aggregation pass is in flight, counting the
\* command passes (/jobs, /new) and the scheduled scrapes
C1_OnePassInFlight ==
    Cardinality({i \in PassIds : HoldsLock(i) \/ Scraping(i)}) <= 1

\* C2: over the /new passes and the scheduled scrapes, in any interleaving,
\* each identity is delivered as new at most once (stated for the runs in which
\* no pass failed)
C2_DeliveredAsNewAtMostOnce ==
    (\A i \in PassIds : pass[i].out # "error")
        => \A x \in IDS : delivered[x] <= 1

\* C3: a /jobs or /new request that arrives while a command pass holds the
\* lock ends at once with the busy answer: it fetches nothing, delivers
\* nothing, leaves the ledger and the lock alone, and does nothing afterwards
C3_BusyRejected ==
    [][\A i \in PassIds :
          /\ ( /\ pass[i].pc = "spawned"
               /\ pass'[i].pc # "spawned"
               /\ \E j \in PassIds : j # i /\ HoldsLock(j) )
             => /\ pass'[i].pc = "done"
                /\ pass'[i].out = "busy"
                /\ pass'[i].did = <<>>
                /\ pass'[i].jobs = <<>>
                /\ db' = db
                /\ sent' = sent
                /\ delivered' = delivered
                /\ lock' = lock
          /\ pass[i].out = "busy" => pass'[i] = pass[i]
      ]_vars

C3_Witness ==
    \E i, j \in PassIds :
        /\ i # j
        /\ pass[i].pc = "done"
        /\ pass[i].out = "busy"
        /\ HoldsLock(j)

\* C4: in every reachable state every identity in the ledger belongs to a
\* posting that was already sent to the chat
C4_LedgerWithinDelivered == LedgerIds(db) \subseteq sent

-----------------------------------------------------------------------------
(* Claims about fetch_all, checked under SpecFetch *)

\* records k and l of emitted carry the same identity or the same duplicate key
Collide(k, l) ==
    \/ emitted[k].id = emitted[l].id
    \/ _title_company_key(emitted[k]) = _title_company_key(emitted[l])

\* C9: in the list fetch_all returns no two records share an identity and no
\* two share a duplicate key, whatever the adapters returned; the list is made
\* of produced records only
C9_NoSharedIdentityOrKey ==
    fetchPc = "returned" =>
        /\ \A i, j \in 1..Len(all_jobs) : i # j =>
              /\ all_jobs[i].id # all_jobs[j].id
              /\ all_jobs[i].url # all_jobs[j].url
              /\ _title_company_key(all_jobs[i]) # _title_company_key(all_jobs[j])
        /\ \A i \in 1..Len(all_jobs) : \E k \in keptIdx : emitted[k] = all_jobs[i]
        /\ Cardinality(keptIdx) = Len(all_jobs)

\* two records with different urls and differently written but equal normalized
\* (title, company) were produced and fetch_all returned a single record
C9_Witness ==
    /\ fetchPc = "returned"
    /\ Len(all_jobs) = 1
    /\ \E k, l \in 1..Len(emitted) :
          /\ k < l
          /\ emitted[k].url # emitted[l].url
          /\ emitted[k].title # emitted[l].title
          /\ _title_company_key(emitted[k]) = _title_company_key(emitted[l])

\* C10 as stated: every record in the output is the first record produced, in
\* adapter order, that carries its identity and the first that carries its
\* duplicate key, and every later record carrying either is discarded
C10_FirstProducerWins ==
    \A k \in keptIdx :
        /\ \A m \in 1..(k - 1) : ~Collide(m, k)
        /\ \A l \in (k + 1)..Len(emitted) : Collide(k, l) => l \notin keptIdx

\* C10 amended: a record is in the output exactly when no earlier record that
\* is in the output carries its identity or its duplicate key; so an output
\* record is the first producer among the records that were not themselves
\* discarded, and every later record carrying its identity or key is discarded
C10_FirstRetainedProducerWins ==
    /\ \A k \in 1..Len(emitted) :
          k \in keptIdx <=> ~(\E m \in keptIdx : m < k /\ Collide(m, k))
    /\ \A k \in keptIdx :
          \A l \in (k + 1)..Len(emitted) : Collide(k, l) => l \notin keptIdx
    /\ keptIdx \subseteq 1..Len(emitted)
    /\ Cardinality(keptIdx) = Len(all_jobs)
    /\ \A n \in 1..Len(all_jobs) :
          \E k \in keptIdx :
              /\ emitted[k] = all_jobs[n]
              /\ Cardinality({m \in keptIdx : m <= k}) = n

\* a later record was discarded in favour of the first producer of its key,
\* and a record was kept although an earlier, discarded one carried its identity
C10_Witness ==
    /\ fetchPc = "returned"
    /\ \E m, k \in 1..Len(emitted) :
          /\ m < k
          /\ m \notin keptIdx
          /\ k \in keptIdx
          /\ emitted[m].id = emitted[k].id
    /\ \E k, l \in 1..Len(emitted) :
          /\ k < l
          /\ k \in keptIdx
          /\ l \notin keptIdx
          /\ emitted[k].id # emitted[l].id


-----------------------------------------------------------------------------
(* Claims about the storage calls, checked under SpecLedger *)

\* the positions of jobs whose identity is not in ids
PositionsNotIn(jobs, ids) == {i \in 1..Len(jobs) : jobs[i].id \notin ids}

\* r lists the elements of jobs at the positions S, in increasing position
ListsPositions(r, jobs, S) ==
    /\ Len(r) = Cardinality(S)
    /\ \A n \in 1..Len(r) :
          \E x \in S : Cardinality({y \in S : y <= x}) = n /\ r[n] = jobs[x]

\* C5: filter_unseen(postings) returns exactly the postings whose identity is
\* not in the ledger, in input order and unaltered, and leaves the ledger's
\* rows as they were
C5_FilterUnseenExact ==
    op = "filter_unseen" =>
        /\ ListsPositions(ret, arg, PositionsNotIn(arg, LedgerIds(pre)))
        /\ db.rows = pre.rows

\* filter_unseen split a list: it kept some postings and dropped others
C5_Witness ==
    /\ op = "filter_unseen"
    /\ ret # <<>>
    /\ Len(ret) < Len(arg)
    /\ pre.rows # {}

\* C6: after mark_seen(P), filter_unseen(P) is empty, and filter_unseen(Q) of
\* a superset Q of P, none of whose other identities is in the ledger, is Q
\* without the elements whose identity is that of an element of P
C6_UnseenAfterMarkSeen ==
    op = "filter_unseen" =>
        /\ arg = marked => ret = <<>>
        /\ ( /\ Elems(marked) \subseteq Elems(arg)
             /\ \A j \in Elems(arg) :
                   j.id \notin IdsOf(marked) => j.id \notin LedgerIds(pre) )
           => ListsPositions(ret, arg, PositionsNotIn(arg, IdsOf(marked)))

\* mark_seen(P) ran on a non-empty P and filter_unseen then ran on a proper
\* superset of P whose other identities were new, and returned those
C6_Witness ==
    /\ op = "filter_unseen"
    /\ marked # <<>>
    /\ Elems(marked) \subseteq Elems(arg)
    /\ Elems(marked) # Elems(arg)
    /\ \A j \in Elems(arg) : j.id \notin IdsOf(marked) => j.id \notin LedgerIds(pre)
    /\ ret # <<>>

\* C7: mark_seen is idempotent: a second mark_seen of the same postings leaves
\* the ledger as the first left it; no call removes or rewrites a row that was
\* there (title, url and seen_at stay), and no identity has two rows
C7_MarkSeenIdempotent ==
    /\ (op = "mark_seen" /\ again) => db = pre
    /\ op = "mark_seen" => pre.rows \subseteq db.rows
    /\ \A r1, r2 \in db.rows : r1.id = r2.id => r1 = r2

\* mark_seen ran twice on the same postings, the second time at a later
\* clock value than the one stored with its rows
C7_Witness ==
    /\ op = "mark_seen"
    /\ again
    /\ arg # <<>>
    /\ \E r \in db.rows : r.id \in IdsOf(arg) /\ r.seen_at < clock

\* C8: the ledger is append-only: no storage call removes a row or changes
\* one, so the set of ledger identities never shrinks
C8_AppendOnly == [][db.rows \subseteq db'.rows]_vars

C8_Witness ==
    /\ op = "mark_seen"
    /\ \E r \in pre.rows : r.seen_at < clock /\ r.id \in IdsOf(arg)
    /\ \E r \in db.rows : r \notin pre.rows

-----------------------------------------------------------------------------
(* Claims about the pipeline, checked under SpecPipeline *)

\* adapters A, B, C return P1, P2 and P4; the adapters after them nothing
SCENARIO ==
    [b \in BOARDS |-> IF b = 1 THEN <<P1>> ELSE IF b = 2 THEN <<P2>>
                      ELSE IF b = 3 THEN <<P4>> ELSE <<>>]

\* C11: when A yields (https://x/1, Growth Lead, Acme, Remote), B a record at
\* https://y/1 with the same normalized title and company, and C
\* (https://z/1, Backend Engineer, Remote), fetch_all returns exactly A's and
\* C's records, and apply_filters for role marketing in mode remote returns
\* exactly A's
C11_Scenario ==
    input = SCENARIO =>
        /\ call \in {"fetch_all", "apply_filters"} => output.raw = <<P1, P4>>
        /\ (call = "apply_filters" /\ env = DEFAULT_ENV) => output.filtered = <<P1>>

C11_Witness ==
    /\ input = SCENARIO
    /\ env = DEFAULT_ENV
    /\ call = "apply_filters"
    /\ _title_company_key(P1) = _title_company_key(P2)
    /\ P1.title # P2.title

-----------------------------------------------------------------------------
(* Claims about the adapters, checked under SpecAdapters *)

\* every request of board b fails, or the parsing of its document raises
Fails(b, docs) ==
    \/ \A k \in 1..Len(docs) : docs[k].status # "ok"
    \/ b > 2 /\ \E k \in 1..Len(docs[1].items) :
                    parse_item("fetch_remoteok", docs[1].items[k], <<>>).act = "raise"

\* C12: an adapter whose fetch fails (network error, non-success status,
\* parse error) yields an empty result; no exception leaves fetch_all, and
\* fetch_all returns the deduplicated records of the other adapters.
C12_FailureIsolated ==
    call = "fetch_all" =>
        /\ ~output.raised
        /\ \A b \in BOARDS : Fails(b, input.boards[b]) => output.outs[b] = <<>>
        /\ \A b \in BOARDS : \A r \in Elems(output.outs[b]) :
              \E k \in Elems(output.raw) :
                  k.id = r.id \/ _title_company_key(k) = _title_company_key(r)
        /\ \A i, j \in 1..Len(output.raw) :
              i # j => output.raw[i].id # output.raw[j].id

C12_Witness ==
    /\ call = "fetch_all"
    /\ \E b \in BOARDS : input.boards[b][1].status = "error"
    /\ \E b \in BOARDS : b > 2 /\ input.boards[b][1].status = "ok"
                               /\ Fails(b, input.boards[b])
    /\ \E b \in BOARDS : output.outs[b] # <<>> /\ Elems(output.outs[b]) \subseteq Elems(output.raw)

\* the records that request k of a fan-out adapter obtains on its own
ObtainedFrom(adapter, docs, k) ==
    IF docs[k].status # "ok" THEN <<>>
    ELSE items_loop(adapter, docs[k].items,
                    GREENHOUSE_COMPANIES[k], <<>>).jobs

\* C13: in an adapter that fans out over pages or registry entries, a failure
\* or non-success status on one request leaves the records obtained from
\* every other request, before or after it, in the adapter's result.
C13_OtherPagesKept ==
    call \in {"fetch_web3career", "fetch_greenhouse"} =>
        \A k \in 1..Len(input.docs) :
            input.docs[k].status # "ok" =>
                \A j \in (1..Len(input.docs)) \ {k} :
                    \A r \in Elems(ObtainedFrom(call, input.docs, j)) :
                        IF call = "fetch_greenhouse"
                        THEN r \in Elems(output.jobs)
                        ELSE r.id \in IdsOf(output.jobs)

C13_Witness ==
    /\ call = "fetch_web3career"
    /\ input.docs[1].status = "error"
    /\ input.docs[2].status = "ok"
    /\ Len(output.jobs) = 2
    /\ ~output.raised

\* C14: within one fetched document, an item whose parsing fails costs only
\* that item: the record of every other item of the document that parses is
\* in the adapter's result.
C14_MalformedItemCostsItself ==
    call \in {"fetch_remoteok", "fetch_greenhouse", "fetch_web3career"} =>
        \A k \in 1..(IF call = "fetch_remoteok" THEN 1 ELSE Len(input.docs)) :
            input.docs[k].status = "ok" =>
                \A i \in 1..Len(input.docs[k].items) :
                    LET r == parse_item(call, input.docs[k].items[i],
                                        GREENHOUSE_COMPANIES[k])
                    IN r.act = "job" => r.job.id \in IdsOf(output.jobs)


\* the records that the call of the current state returned
Returned_records ==
    IF call = "fetch_all" THEN Elems(output.raw)
    ELSE IF call = "none" THEN {}
    ELSE Elems(output.jobs)

-----------------------------------------------------------------------------
(* Claims about the filters, checked under SpecFilters *)

\* the four checks of the filter, each on its own
CHECKS == {"role inclusion", "role exclusion", "location policy", "age cutoff"}
PassesCheck(c, cfg, job, now) ==
    CASE c = "role inclusion"  -> _matches_include(cfg, job.title)
      [] c = "role exclusion"  -> ~_is_excluded_title(cfg, job.title)
      [] c = "location policy" -> _is_location_allowed(cfg, job)
      [] c = "age cutoff"      -> ~_is_too_old(job, now)

\* C16: apply_filters returns exactly the input postings that pass all four
\* checks, in input order and unaltered; the checks being taken as a set, the
\* order of their evaluation has no part in the result.
C16_ExactlyThosePassingAll ==
    call = "apply_filters" =>
        LET passes(job) == \A c \in CHECKS : PassesCheck(c, env, job, utcnow)
        IN ~output.raised /\ output.result = SelectSeq(input, passes)

\* the phrases registered for the roles selected in cfg
ActivePhrases(cfg) ==
    UNION {Elems(ROLE_EXCLUDE_PHRASES[cfg.JOB_ROLES[k]]) :
              k \in {i \in 1..Len(cfg.JOB_ROLES) :
                        cfg.JOB_ROLES[i] \in DOMAIN ROLE_EXCLUDE_PHRASES}}

T_SeniorPMM == <<"S","e","n","i","o","r"," ","P","r","o","d","u","c","t"," ","M","a","r","k","e","t","i","n","g"," ","M","a","n","a","g","e","r">>
T_BackendSE == <<"B","a","c","k","e","n","d"," ","S","o","f","t","w","a","r","e"," ","E","n","g","i","n","e","e","r">>

\* C17: a title is rejected by role exclusion iff it contains a phrase
\* registered for an active role, where 'product manager' does not count in a
\* title that contains 'product marketing' or 'growth marketing'; for role
\* marketing 'Senior Product Marketing Manager' passes inclusion and
\* exclusion and 'Backend Software Engineer' is rejected.
C17_ExcludedIffActivePhrase ==
    /\ call = "_is_excluded_title" =>
          LET t == lower(html_unescape(input[1].title)) IN
          /\ output.verdict <=>
                \E phrase \in ActivePhrases(env) :
                    /\ Contains(phrase, t)
                    /\ phrase = <<"p","r","o","d","u","c","t"," ","m","a","n","a","g","e","r">> =>
                          ~(Contains(<<"p","r","o","d","u","c","t"," ","m","a","r","k","e","t","i","n","g">>, t) \/ Contains(<<"g","r","o","w","t","h"," ","m","a","r","k","e","t","i","n","g">>, t))
          /\ env.JOB_ROLES = <<<<"m","a","r","k","e","t","i","n","g">>>> =>
                /\ input[1].title = T_SeniorPMM => ~output.verdict
                /\ input[1].title = T_BackendSE => output.verdict
    /\ (/\ call = "_matches_include"
        /\ env.JOB_ROLES = <<<<"m","a","r","k","e","t","i","n","g">>>>
        /\ input[1].title = T_SeniorPMM) => output.verdict

C17_Witness ==
    /\ call = "_is_excluded_title"
    /\ env.JOB_ROLES = <<<<"m","a","r","k","e","t","i","n","g">>>>
    /\ input[1].title = T_BackendSE
    /\ output.verdict

\* the configuration cfg with role selected alone
Alone(cfg, role) == [cfg EXCEPT !.JOB_ROLES = <<role>>]

\* C18 as stated: a title that passes role inclusion and exclusion when one
\* role is selected alone also passes them when that role is selected
\* together with other roles.
C18_AddingRoleNeverRemoves ==
    call = "_is_excluded_title" =>
        \A k \in 1..Len(env.JOB_ROLES) :
            (/\ _matches_include(Alone(env, env.JOB_ROLES[k]), input[1].title)
             /\ ~_is_excluded_title(Alone(env, env.JOB_ROLES[k]), input[1].title))
            => (/\ _matches_include(env, input[1].title)
                /\ ~output.verdict)

\* C18 amended: selecting several roles unions their keyword sets and their
\* exclusion phrases: a title passes inclusion iff it passes it under one of
\* the roles alone, and is excluded iff it is excluded under one of the roles
\* alone; an added role never removes a title from inclusion, and rejects the
\* titles that contain one of its exclusion phrases.
C18_RolesUnionBothLists ==
    /\ call = "_matches_include" =>
          (output.verdict <=>
              \E k \in 1..Len(env.JOB_ROLES) :
                  _matches_include(Alone(env, env.JOB_ROLES[k]), input[1].title))
    /\ call = "_is_excluded_title" =>
          (output.verdict <=>
              \E k \in 1..Len(env.JOB_ROLES) :
                  _is_excluded_title(Alone(env, env.JOB_ROLES[k]), input[1].title))

C18_Witness ==
    /\ call = "_is_excluded_title"
    /\ env.JOB_ROLES = <<<<"m","a","r","k","e","t","i","n","g">>, <<"d","a","t","a">>>>
    /\ input[1].title = <<"C","o","m","m","u","n","i","t","y"," ","M","a","n","a","g","e","r">>
    /\ _matches_include(Alone(env, <<"m","a","r","k","e","t","i","n","g">>), input[1].title)
    /\ ~_is_excluded_title(Alone(env, <<"m","a","r","k","e","t","i","n","g">>), input[1].title)
    /\ output.verdict

\* the location text that the check looks at, and what it contains
LocOf(job) == strip(lower(html_unescape(job.location)))
HasRemoteKeyword(job) == \E k \in Elems(_REMOTE_KEYWORDS) : Contains(k, LocOf(job))
HasUSPattern(job)     == \E k \in Elems(US_RESTRICTED_PATTERNS) : Contains(k, LocOf(job))
HasOnsitePattern(job) == \E k \in Elems(ONSITE_PATTERNS) : Contains(k, LocOf(job))

\* C19: in mode remote a posting passes the location check iff its location
\* is empty, or contains a remote keyword, no US-restriction pattern and no
\* on-site pattern; 'Remote - USA' is rejected, 'Worldwide' and '' accepted.
C19_RemoteMode ==
    (call = "_is_location_allowed" /\ env.LOCATION_TYPE = "remote") =>
        /\ output.verdict <=>
              \/ LocOf(input[1]) = <<>>
              \/ /\ HasRemoteKeyword(input[1])
                 /\ ~HasUSPattern(input[1])
                 /\ ~HasOnsitePattern(input[1])
        /\ input[1].location = <<"R","e","m","o","t","e"," ","-"," ","U","S","A">> => ~output.verdict
        /\ input[1].location = <<"W","o","r","l","d","w","i","d","e">> => output.verdict
        /\ input[1].location = <<>> => output.verdict

C19_Witness ==
    /\ call = "_is_location_allowed"
    /\ env.LOCATION_TYPE = "remote"
    /\ input[1].location = <<"R","e","m","o","t","e"," ","-"," ","U","S","A">>
    /\ HasRemoteKeyword(input[1])
    /\ ~output.verdict

\* C20: in mode specific a posting whose location is non-empty and has no
\* on-site pattern passes the location check iff its location contains a
\* remote keyword and no US-restriction pattern, or contains a preferred city.
C20_SpecificMode ==
    (/\ call = "_is_location_allowed"
     /\ env.LOCATION_TYPE = "specific"
     /\ LocOf(input[1]) # <<>>
     /\ ~HasOnsitePattern(input[1])) =>
        (output.verdict <=>
            \/ HasRemoteKeyword(input[1]) /\ ~HasUSPattern(input[1])
            \/ \E city \in Elems(env.PREFERRED_LOCATIONS) : Contains(city, LocOf(input[1])))

\* C21: the age check is fail-open with a 45-day window: apply_filters drops
\* a posting that passes the other checks iff its posted value parses to a
\* date more than 45 days before the current time; a posting whose posted
\* value does not parse is kept, one dated 50 days before now is dropped.
C21_AgeCutoffFailOpen ==
    call = "apply_filters" =>
        /\ ~output.raised
        /\ \A i \in 1..Len(input) :
              (\A c \in CHECKS \ {"age cutoff"} : PassesCheck(c, env, input[i], utcnow)) =>
                  LET dt == _parse_posted_date(input[i].posted) IN
                  /\ input[i] \notin Elems(output.result)
                        <=> (dt.some /\ dt.ts < utcnow - 45 * 86400)
                  /\ input[i].posted \in {<<>>, <<"T","B","D">>} => input[i] \in Elems(output.result)
                  /\ input[i].posted = <<"2","0","2","6","-","0","1","-","0","1">> => input[i] \notin Elems(output.result)

-----------------------------------------------------------------------------
(* Claims about the order and the errors of a pass, checked under Spec *)

\* C22: a /jobs pass neither reads nor writes the ledger: no step of it calls
\* filter_unseen or mark_seen or changes the database, after the filters it
\* goes to the delivery with the filtered list unchanged, and a delivery
\* that got through sent every posting of that list, the ones already in the
\* ledger included
C22_LatestIgnoresLedger ==
    [][\A i \in PassIds :
          (pass[i].kind = "jobs" /\ pass'[i] # pass[i]) =>
              /\ db' = db
              /\ pass[i].pc = "fetch" =>
                    \/ pass'[i].err = "filter"
                    \/ /\ pass'[i].pc = "deliver"
                       /\ \E raw \in FETCHED : pass'[i].jobs = FILTERED[env][clock][raw]
              /\ pass[i].pc \in {"deliver", "release"} =>
                    /\ pass'[i].jobs = pass[i].jobs
                    /\ pass'[i].did \in {<<"fetch">>, <<"fetch", "send">>}
              /\ pass'[i].out = "sent" => IdsOf(pass[i].jobs) \subseteq sent'
      ]_vars

C22_Witness ==
    \E i \in PassIds :
        /\ pass[i].kind = "jobs"
        /\ pass[i].pc = "done"
        /\ pass[i].out = "sent"
        /\ pass[i].did = <<"fetch", "send">>
        /\ IdsOf(pass[i].jobs) \cap LedgerIds(db) # {}
        /\ IdsOf(pass[i].jobs) \subseteq sent

\* C25: a non-dry-run pass of scraper.main runs fetch and filter, unseen,
\* send, mark seen in this order; it writes identities to the ledger only in
\* the step after a send_jobs that returned without error, when all of them
\* were sent; a pass whose delivery raised ends there and writes nothing
C25_CommitAfterDelivery ==
    [][\A i \in PassIds :
          (pass[i].kind \in {"sched", "cli"} /\ ~pass[i].dry_run /\ pass'[i] # pass[i]) =>
              /\ \E n \in 0..4 : pass'[i].did = SubSeq(<<"fetch", "unseen", "send", "mark">>, 1, n)
              /\ LedgerIds(db') # LedgerIds(db) =>
                    /\ pass[i].did = <<"fetch", "unseen", "send">>
                    /\ pass[i].err = ""
                    /\ IdsOf(pass[i].jobs) \subseteq sent
                    /\ LedgerIds(db') = LedgerIds(db) \cup IdsOf(pass[i].jobs)
              /\ pass'[i].err = "send" =>
                    /\ pass'[i].pc = "done"
                    /\ pass'[i].out = "error"
                    /\ db' = db
              /\ pass[i].err # "" => FALSE
      ]_vars

C25_Witness ==
    \E i, j \in PassIds :
        /\ pass[i].kind = "sched"
        /\ pass[i].out = "ok"
        /\ pass[i].did = <<"fetch", "unseen", "send", "mark">>
        /\ pass[i].jobs # <<>>
        /\ IdsOf(pass[i].jobs) \subseteq LedgerIds(db)
        /\ pass[j].kind = "sched"
        /\ pass[j].err = "send"
        /\ pass[j].pc = "done"
        /\ pass[j].jobs # <<>>
        /\ IdsOf(pass[j].jobs) \cap LedgerIds(db) = {}

\* C26: an sqlite3 error in filter_unseen or mark_seen is never swallowed:
\* the step in which it is raised ends the pass as an error (a command pass
\* has only the release of the lock left) with nothing written, sent or
\* counted as delivered, and the pass does nothing of that kind afterwards
C26_LedgerErrorAborts ==
    [][\A i \in PassIds :
          (pass'[i].err = "ledger" /\ pass'[i] # pass[i]) =>
              /\ pass'[i].out = "error"
              /\ pass'[i].pc = IF pass[i].err = "" /\ pass[i].kind \in {"jobs", "new"}
                               THEN "release" ELSE "done"
              /\ pass'[i].did = pass[i].did
              /\ pass'[i].jobs = pass[i].jobs
              /\ db' = db
              /\ sent' = sent
              /\ delivered' = delivered
      ]_vars

C26_Witness ==
    \E i, j \in PassIds :
        /\ pass[i].kind = "new"
        /\ pass[i].err = "ledger"
        /\ pass[i].pc = "done"
        /\ pass[i].did = <<"fetch">>
        /\ pass[i].jobs # <<>>
        /\ IdsOf(pass[i].jobs) \cap sent = {}
        /\ pass[j].kind = "sched"
        /\ pass[j].err = "ledger"
        /\ pass[j].pc = "done"
        /\ pass[j].did = <<"fetch">>
        /\ ~lock

\* C27: in a non-dry-run pass of scraper.main the health alert is attempted
\* exactly when fewer than MIN_RAW_JOBS raw postings were fetched; whether it
\* was sent or its sending failed, the step ends as it does with a normal
\* count: with the filtered list of the fetched postings on the way to
\* filter_unseen, or with the exception of apply_filters; the later steps
\* leave the record of the alert as it is
C27_LowCountIsWarning ==
    [][\A i \in PassIds :
          (pass[i].kind \in {"sched", "cli"} /\ ~pass[i].dry_run /\ pass'[i] # pass[i]) =>
              IF pass[i].pc = "fetch"
              THEN /\ pass'[i].alert \in {"sent", "failed"} <=> pass'[i].raw_count < MIN_RAW_JOBS
                   /\ \E raw \in FETCHED :
                         /\ pass'[i].raw_count - Len(raw) \in BULK
                         /\ pass'[i] =
                               IF RAISES[env][raw]
                               THEN [pass[i] EXCEPT !.did = <<"fetch">>,
                                                    !.raw_count = pass'[i].raw_count,
                                                    !.alert = pass'[i].alert,
                                                    !.pc = "done", !.out = "error",
                                                    !.err = "filter"]
                               ELSE [pass[i] EXCEPT !.did = <<"fetch">>,
                                                    !.raw_count = pass'[i].raw_count,
                                                    !.alert = pass'[i].alert,
                                                    !.jobs = FILTERED[env][clock][raw],
                                                    !.pc = "unseen"]
              ELSE /\ pass'[i].alert = pass[i].alert
                   /\ pass'[i].raw_count = pass[i].raw_count
      ]_vars

C27_Witness ==
    \E i, j \in PassIds :
        /\ pass[i].kind = "sched"
        /\ pass[i].alert = "failed"
        /\ pass[i].raw_count < MIN_RAW_JOBS
        /\ pass[i].out = "ok"
        /\ pass[i].did = <<"fetch", "unseen", "send", "mark">>
        /\ pass[i].jobs # <<>>
        /\ pass[j].kind = "sched"
        /\ pass[j].alert = "sent"
        /\ pass[j].out = "ok"
        /\ pass[j].did = <<"fetch", "unseen", "send", "mark">>
        /\ pass[j].jobs # <<>>
        /\ IdsOf(pass[i].jobs) \cup IdsOf(pass[j].jobs) \subseteq LedgerIds(db) \cap sent

\* C28: the fetch lock is held only while a command pass is between its
\* acquire and its release, however the pass ends (postings delivered, none
\* found, or an exception in the filters, the ledger or the delivery); so a
\* /jobs or /new thread that reaches the acquire while no command pass is
\* in that range gets the lock and starts fetching
C28_LockNeverLeaks ==
    [][/\ lock' =>
             \E i \in PassIds :
                 /\ pass'[i].kind \in {"jobs", "new"}
                 /\ pass'[i].pc \in {"fetch", "unseen", "mark", "deliver", "release"}
       /\ \A i \in PassIds :
             ( /\ pass[i].pc = "spawned"
               /\ pass'[i].pc # "spawned"
               /\ ~ \E j \in PassIds : HoldsLock(j) )
                => /\ pass'[i].pc = "fetch"
                   /\ pass'[i].out = ""
                   /\ lock'
       /\ \A i \in PassIds :
             (pass[i].pc = "release" /\ pass'[i].pc = "done") =>
                /\ pass[i].out \in {"sent", "none_found", "error"}
                /\ ~lock'
      ]_vars

C28_Witness ==
    \E i, j \in PassIds :
        /\ pass[i].kind = "new"
        /\ pass[i].pc = "done"
        /\ pass[i].err \in {"filter", "ledger", "send"}
        /\ pass[j].kind = "jobs"
        /\ pass[j].pc = "fetch"
        /\ lock

-----------------------------------------------------------------------------
(* Claims about the messages, checked under SpecNotifier *)

\* the texts joined by an empty line
RECURSIVE JoinBlank(_)
JoinBlank(texts) ==
    IF texts = <<>> THEN <<>>
    ELSE IF Len(texts) = 1 THEN texts[1]
    ELSE texts[1] \o <<NL, NL>> \o JoinBlank(Tail(texts))

\* the orders of the input in which no posting comes before a newer one
SortedOrders(jobs) ==
    {o \in [1..Len(jobs) -> 1..Len(jobs)] :
        /\ \A i, j \in 1..Len(jobs) : i # j => o[i] # o[j]
        /\ \A k \in 1..(Len(jobs) - 1) : ~Newer(jobs[o[k + 1]], jobs[o[k]])}

\* every message begins with its prefix, and the texts after the prefixes,
\* joined, are the formatted postings in a sorted order, each once
ChunksCarryAllInOrder ==
    LET m == output.messages
        n == Len(m)
        p(i) == message_prefix(env, Len(input), i, n)
    IN /\ \A i \in 1..n : StartsWith(m[i], p(i))
       /\ \E o \in SortedOrders(input) :
             JoinBlank([i \in 1..n |-> SubSeq(m[i], Len(p(i)) + 1, Len(m[i]))])
                = JoinBlank([k \in 1..Len(input) |-> _format_job(input[o[k]])])

\* C24: every text send_jobs hands to _send, prefix included, has at most
\* MAX_MSG_LEN characters, and the chunks carry every formatted posting
\* exactly once, in sorted order
C24_MessagesWithinLimit ==
    (call = "send_jobs" /\ input # <<>>) =>
        /\ \A i \in 1..Len(output.messages) : Len(output.messages[i]) <= MAX_MSG_LEN
        /\ Len(input) <= MaxListLen => ChunksCarryAllInOrder

-----------------------------------------------------------------------------
(* Claims about the polling loop and the setup flow, checked under SpecLoop *)

\* the configuration a pass would filter with if it used the preferences p
WithPrefs(cfg, p) ==
    [cfg EXCEPT !.JOB_ROLES = p.roles,
                !.LOCATION_TYPE = p.location_type,
                !.PREFERRED_LOCATIONS = p.preferred_locations]

\* C23: a pass (/jobs, /new or scheduled scrape) that was started after the
\* setup flow saved roles and a location choice filters the fetched postings
\* with the saved roles and location: its fetch-and-filter step ends with
\* apply_filters of some fetched list under the saved preferences
C23_PassesUseSavedPrefs ==
    [][\A i \in DOMAIN pass :
          (pass[i].pc = "fetch" /\ pass'[i].pc # "fetch" /\ pass[i].prefs.setup_done) =>
              LET cfg == WithPrefs(env, pass[i].prefs) IN
              \E raw \in FETCHED :
                  IF apply_filters_raises(cfg, raw)
                  THEN pass'[i].err = "filter"
                  ELSE /\ pass'[i].err = ""
                       /\ pass'[i].jobs = apply_filters(cfg, raw, utcnow)
      ]_vars

\* C29: an update from a chat other than TELEGRAM_CHAT_ID only advances the
\* offset: no user's setup state, not the saved preferences, no pass, not
\* the ledger, the lock or what was sent changes in the round that handles it
C29_ForeignUpdatesIgnored ==
    [][(offset' # offset /\ update'.chat # TELEGRAM_CHAT_ID) =>
          /\ offset' = update'.update_id + 1
          /\ _setup' = _setup
          /\ prefs' = prefs
          /\ pass' = pass
          /\ db' = db
          /\ lock' = lock
          /\ sent' = sent
          /\ delivered' = delivered
      ]_vars

C29_Witness ==
    /\ update # <<>>
    /\ update.chat # TELEGRAM_CHAT_ID
    /\ update.kind = "button"
    /\ offset = update.update_id + 1
    /\ _setup["1"].step = "location"
    /\ _setup["2"] = NoState
    /\ prefs = NoPrefs
    /\ \A i \in DOMAIN pass : pass[i] = NoPass

\* C30: whatever the updates, preferences are saved only with a non-empty
\* role list, which is the list of the user's flow, and with location type
\* specific only with a non-empty list of non-empty cities; a flow enters the
\* location step only from the role step with a role selected, so Continue
\* with no role leaves it in the role step; and while a flow is in the
\* location or the cities step its roles do not change
C30_SetupSavesOnlyComplete ==
    [][/\ prefs' # NoPrefs =>
             /\ prefs'.setup_done
             /\ prefs'.roles # <<>>
             /\ prefs'.location_type \in {"remote", "any", "specific"}
             /\ prefs'.location_type = "specific" =>
                   /\ prefs'.preferred_locations # <<>>
                   /\ \A k \in 1..Len(prefs'.preferred_locations) :
                         prefs'.preferred_locations[k] # <<>>
       /\ prefs' # prefs =>
             \E u \in USERS :
                 /\ _setup[u].step \in {"location", "cities"}
                 /\ prefs'.roles = _setup[u].roles
                 /\ (prefs'.location_type = "specific") = (_setup[u].step = "cities")
                 /\ _setup'[u] = NoState
       /\ \A u \in USERS :
             /\ (_setup'[u].step = "location" /\ _setup[u].step # "location") =>
                   /\ _setup[u].step = "roles"
                   /\ _setup[u].roles # <<>>
                   /\ _setup'[u].roles = _setup[u].roles
             /\ (_setup'[u].step = "cities" /\ _setup[u].step # "cities") =>
                   _setup[u].step = "location"
             /\ ( /\ _setup[u].step \in {"location", "cities"}
                  /\ _setup'[u].step \in {"location", "cities"} ) =>
                   _setup'[u].roles = _setup[u].roles
      ]_vars

C30_Witness ==
    /\ prefs.setup_done
    /\ prefs.location_type = "specific"
    /\ prefs.preferred_locations = <<<<"d","u","b","a","i">>, <<"l","o","n","d","o","n">>>>
    /\ prefs.roles = <<<<"d","a","t","a">>>>
    /\ _setup["1"] = NoState

====
